---- MODULE Spec2Model ----
(***************************************************************************)
(* A model of the azimuth world core: the containment graph of Things      *)
(* (entities.py), the capability mixins (mixins.py), the command registry  *)
(* (decorator.py) and the command-resolution pipeline of                   *)
(* World.process_player_command (world.py).                                *)
(*                                                                         *)
(* Python strings are sequences of one-character strings, so that split,   *)
(* strip, replace, startswith and the substring test are computed as the   *)
(* interpreter computes them.                                              *)
(***************************************************************************)
EXTENDS Integers, Sequences, FiniteSets, TLC

\* Python's None.
None == "None"

-----------------------------------------------------------------------------
(* Python string operations *)

\* The string constants of the model, character by character.
S == [ look    |-> <<"l","o","o","k">>,
       l       |-> <<"l">>,
       at      |-> <<"a","t">>,
       get     |-> <<"g","e","t">>,
       take    |-> <<"t","a","k","e">>,
       pick    |-> <<"p","i","c","k">>,
       remove  |-> <<"r","e","m","o","v","e">>,
       drop    |-> <<"d","r","o","p">>,
       use     |-> <<"u","s","e">>,
       on      |-> <<"o","n">>,
       put     |-> <<"p","u","t">>,
       in      |-> <<"i","n">>,
       from    |-> <<"f","r","o","m">>,
       open    |-> <<"o","p","e","n">>,
       close   |-> <<"c","l","o","s","e">>,
       lock    |-> <<"l","o","c","k">>,
       unlock  |-> <<"u","n","l","o","c","k">>,
       with    |-> <<"w","i","t","h">>,
       using   |-> <<"u","s","i","n","g">>,
       go      |-> <<"g","o">>,
       walk    |-> <<"w","a","l","k">>,
       through |-> <<"t","h","r","o","u","g","h">>,
       say     |-> <<"s","a","y">>,
       emote   |-> <<"e","m","o","t","e">>,
       eval    |-> <<"e","v","a","l">>,
       ateval  |-> <<"@","e","v","a","l">>,
       wh      |-> <<"w","h">>,
       whisper |-> <<"w","h","i","s","p","e","r">>,
       to      |-> <<"t","o">>,
       as      |-> <<"a","s">>,
       atwho   |-> <<"@","w","h","o">>,
       atquit  |-> <<"@","q","u","i","t">>,
       atdesc  |-> <<"@","d","e","s","c">>,
       atdescribe |-> <<"@","d","e","s","c","r","i","b","e">>,
       athome  |-> <<"@","h","o","m","e">>,
       atsethome |-> <<"@","s","e","t","h","o","m","e">>,
       atdig   |-> <<"@","d","i","g">>,
       atchparent |-> <<"@","c","h","p","a","r","e","n","t">>,
       atrename |-> <<"@","r","e","n","a","m","e">>,
       atcreate |-> <<"@","c","r","e","a","t","e">>,
       atdumpdb |-> <<"@","d","u","m","p","d","b">>,
       atmessages |-> <<"@","m","e","s","s","a","g","e","s">>,
       atmessage |-> <<"@","m","e","s","s","a","g","e">>,
       atteleport |-> <<"@","t","e","l","e","p","o","r","t">>,
       myself  |-> <<"m","y","s","e","l","f">>,
       i       |-> <<"i">>,
       inv     |-> <<"i","n","v">>,
       inventory |-> <<"i","n","v","e","n","t","o","r","y">>,
       me      |-> <<"m","e">>,
       here    |-> <<"h","e","r","e">>,
       n       |-> <<"n">>,
       s       |-> <<"s">>,
       e       |-> <<"e">>,
       w       |-> <<"w">>,
       ne      |-> <<"n","e">>,
       nw      |-> <<"n","w">>,
       se      |-> <<"s","e">>,
       sw      |-> <<"s","w">>,
       up      |-> <<"u","p">>,
       down    |-> <<"d","o","w","n">>,
       north   |-> <<"n","o","r","t","h">>,
       south   |-> <<"s","o","u","t","h">>,
       east    |-> <<"e","a","s","t">>,
       west    |-> <<"w","e","s","t">>,
       northeast |-> <<"n","o","r","t","h","e","a","s","t">>,
       northwest |-> <<"n","o","r","t","h","w","e","s","t">>,
       southeast |-> <<"s","o","u","t","h","e","a","s","t">>,
       southwest |-> <<"s","o","u","t","h","w","e","s","t">>,
       door    |-> <<"d","o","o","r">>,
       gem     |-> <<"g","e","m">>,
       box     |-> <<"b","o","x">>,
       gembox  |-> <<"g","e","m"," ","b","o","x">>,
       gemtabbox |-> <<"g","e","m","\t","b","o","x">>,
       GemBox  |-> <<"G","e","m"," ","B","o","x">>,
       Gem     |-> <<"G","e","m">>,
       Box     |-> <<"B","o","x">>,
       g       |-> <<"g">>,
       b       |-> <<"b">>,
       bo      |-> <<"b","o">>,
       empty   |-> <<>>,
       login   |-> <<"l","o","g","i","n">>,
       register |-> <<"r","e","g","i","s","t","e","r">>,
       pw1     |-> <<"p","w","1">>,
       pw2     |-> <<"p","w","2">>,
       mail    |-> <<"a","@","b">>,
       Start   |-> <<"S","t","a","r","t">>,
       Hall    |-> <<"H","a","l","l">>,
       bob     |-> <<"b","o","b">>,
       wiz     |-> <<"w","i","z">>,
       hi      |-> <<"h","i">>,
       one     |-> <<"1">>,
       xyzzy   |-> <<"x","y","z","z","y">>,
       sp      |-> <<" ">>,
       squote  |-> <<"'">>,
       dquote  |-> <<"\"">>,
       colon   |-> <<":">>,
       semi    |-> <<";">>,
       pipe    |-> <<"|">> ]

\* s[i:] for a 0-based i.
Drop(s, i) == SubSeq(s, i + 1, Len(s))

\* s.startswith(pre)
StartsWith(s, pre) == Len(pre) <= Len(s) /\ SubSeq(s, 1, Len(pre)) = pre

\* s.find(pat): the least 1-based index at which pat occurs in s, 0 if none.
Find(s, pat) ==
    LET hits == { j \in 1..(Len(s) - Len(pat) + 1) : SubSeq(s, j, j + Len(pat) - 1) = pat }
    IN  IF hits = {} THEN 0 ELSE CHOOSE j \in hits : \A k \in hits : j <= k

\* pat in s
Contains(s, pat) == Find(s, pat) # 0

\* c.isspace(), for the whitespace characters the model's strings use.
IsSpace(c) == c \in {" ", "\t"}

\* s.strip()
RECURSIVE LStrip(_)
LStrip(s) == IF s # <<>> /\ IsSpace(Head(s)) THEN LStrip(Tail(s)) ELSE s
RECURSIVE RStrip(_)
RStrip(s) == IF s # <<>> /\ IsSpace(s[Len(s)]) THEN RStrip(SubSeq(s, 1, Len(s) - 1)) ELSE s
Strip(s) == RStrip(LStrip(s))

\* s.split(sep): the pieces between the non-overlapping occurrences of sep,
\* found left to right.
RECURSIVE SplitOn(_, _)
SplitOn(s, sep) ==
    LET j == Find(s, sep)
    IN  IF j = 0 THEN <<s>>
        ELSE <<SubSeq(s, 1, j - 1)>> \o SplitOn(Drop(s, j + Len(sep) - 1), sep)

\* s.split(): the words between runs of whitespace; cur is the word being
\* read.
RECURSIVE WordsFrom(_, _)
WordsFrom(s, cur) ==
    IF s = <<>> THEN (IF cur = <<>> THEN <<>> ELSE <<cur>>)
    ELSE IF IsSpace(Head(s))
         THEN (IF cur = <<>> THEN <<>> ELSE <<cur>>) \o WordsFrom(Tail(s), <<>>)
         ELSE WordsFrom(Tail(s), Append(cur, Head(s)))
SplitWords(s) == WordsFrom(s, <<>>)

\* s.replace(old, "", 1)
ReplaceFirst(s, old) ==
    LET j == Find(s, old)
    IN  IF j = 0 THEN s ELSE SubSeq(s, 1, j - 1) \o Drop(s, j + Len(old) - 1)

\* s.lower(), for the upper-case letters the model's names use.
LowerChar(c) == CASE c = "S" -> "s" [] c = "H" -> "h" [] c = "G" -> "g" [] c = "B" -> "b"
                     [] OTHER -> c
Lower(s) == [k \in 1..Len(s) |-> LowerChar(s[k])]

\* The words of a line joined by single spaces.
RECURSIVE Join(_)
Join(ws) == IF Len(ws) = 1 THEN ws[1] ELSE ws[1] \o S.sp \o Join(Tail(ws))

\* x in list
InSeq(x, list) == \E k \in 1..Len(list) : list[k] = x

-----------------------------------------------------------------------------
(* The entities of the modelled world and the records they are built from *)

Places == {"A", "B"}
Players == {"p", "w"}
ExitIds == {"north", "south", "door"}
Objects == {"gem", "box"}
Things == Places \cup Players \cup ExitIds \cup Objects

\* The in-memory instances. The instance constructed first for an id bears
\* the id as its name; the others are the instances a later load of the same
\* id constructs, in the order in which they are taken.
InstancesOf == [ x \in Things |->
                  CASE x = "p"   -> <<"p", "p2", "p3">>
                    [] x = "w"   -> <<"w", "w2", "w3">>
                    [] x = "gem" -> <<"gem", "gem2">>
                    [] x = "box" -> <<"box", "box2">>
                    [] OTHER     -> <<x>> ]
Insts == UNION { {InstancesOf[x][k] : k \in 1..Len(InstancesOf[x])} : x \in Things }

\* instance.id
IdOf(i) == CHOOSE x \in Things : \E k \in 1..Len(InstancesOf[x]) : InstancesOf[x][k] = i

\* The world itself, the last candidate of the search order.
TheWorld == "World"

\* The connection ids of the transport layer.
Sids == {"s1", "s2"}

\* The passwords the model's users type, and the one each player registered.
Passwords == {S.pw1, S.pw2}
InitPassword == [p |-> S.pw1, w |-> S.pw1]

\* werkzeug's generate_password_hash and check_password_hash.
generate_password_hash(password) == <<"hash", password>>
check_password_hash(hash, password) == hash = <<"hash", password>>

\* The concrete class of each entity (the "class" field of its record).
RecordClass == [ A |-> "Place", B |-> "Place",
                 p |-> "Player", w |-> "Programmer",
                 north |-> "Exit", south |-> "Exit", door |-> "LockableExit",
                 gem |-> "Object", box |-> "OpenableContainer" ]
ClassOf == [ i \in Insts |-> RecordClass[IdOf(i)] ]

\* self.name and self.aliases, as BaseThing.__init__ reads them from the record.
RecordName == [ A |-> S.Start, B |-> S.Hall, p |-> S.bob, w |-> S.wiz,
                north |-> S.north, south |-> S.south, door |-> S.door,
                gem |-> S.gem, box |-> S.gembox ]
NameOf == [ i \in Insts |-> RecordName[IdOf(i)] ]
AliasesOf == [ x \in Insts |-> <<>> ]

\* The source and destination ids of each Exit's record.
ExitData == [ north |-> [source |-> "A", destination |-> "B"],
              south |-> [source |-> "B", destination |-> "A"],
              door  |-> [source |-> "A", destination |-> "B"] ]

\* Openable.open_paired_object and Lockable.locked_by_player: absent from
\* every record of the modelled world.
open_paired_object == [ x \in Insts |-> None ]
locked_by_player == [ x \in Insts |-> None ]

-----------------------------------------------------------------------------
(* Classes: method resolution order and the command registry *)

\* inspect.getmro(cls)[:-1]: the linearisation of each class, object dropped.
MRO == [ Place |-> <<"Place", "BaseThing">>,
         Player |-> <<"Player", "BaseThing">>,
         Programmer |-> <<"Programmer", "Player", "BaseThing">>,
         Exit |-> <<"Exit", "BaseThing">>,
         OpenableExit |-> <<"OpenableExit", "Exit", "BaseThing", "Openable", "StateToggle">>,
         LockableExit |-> <<"LockableExit", "OpenableExit", "Exit", "BaseThing",
                            "Lockable", "Openable", "StateToggle">>,
         Object |-> <<"Object", "BaseThing">>,
         Container |-> <<"Container", "Object", "BaseThing", "Containable">>,
         OpenableContainer |-> <<"OpenableContainer", "Container", "Object", "BaseThing",
                                 "Containable", "Openable", "StateToggle">>,
         BaseThing |-> <<"BaseThing">>,
         Containable |-> <<"Containable">>,
         StateToggle |-> <<"StateToggle">>,
         Openable |-> <<"Openable", "StateToggle">>,
         Lockable |-> <<"Lockable", "Openable", "StateToggle">> ]

\* isinstance(x, cls)
IsInstance(x, cls) == x \in Insts /\ InSeq(cls, MRO[ClassOf[x]])

\* One grammar declaration: the info dict of make_command.  A prep of None is
\* the empty sequence; a role of None is the string None.
Info(func, verb, dobj, prep, iobj) ==
    [func |-> func, verb |-> verb, dobj |-> dobj, prep |-> prep, iobj |-> iobj]

\* Commands._commands: per class, the declarations of its decorated methods in
\* the order register_commands walks them (methods in definition order, the
\* declarations of one method innermost decorator first).
Registered ==
  [ BaseThing |-> <<
        Info("BaseThing.look", <<S.look, S.l>>, None, <<S.at>>, "self"),
        Info("BaseThing.look", <<S.look, S.l>>, "self", <<>>, None) >>,
    Place |-> <<
        Info("Place.look", <<S.look, S.l>>, None, <<>>, None) >>,
    Exit |-> <<
        Info("Exit.use", <<S.go, S.walk>>, None, <<S.through>>, "self"),
        Info("Exit.use", <<S.go, S.walk>>, "self", <<>>, None) >>,
    OpenableExit |-> <<
        Info("OpenableExit.use", <<S.go, S.walk>>, None, <<S.through>>, "self"),
        Info("OpenableExit.use", <<S.go, S.walk>>, "self", <<>>, None),
        Info("OpenableExit.open", <<S.open>>, "self", <<>>, None),
        Info("OpenableExit.close", <<S.close>>, "self", <<>>, None) >>,
    Object |-> <<
        Info("Object.get", <<S.get, S.take, S.pick>>, "self", <<>>, None),
        Info("Object.drop", <<S.drop>>, "self", <<>>, None),
        Info("Object.use", <<S.use>>, "self", <<S.on>>, "Object"),
        Info("Object.use", <<S.use>>, "self", <<>>, None) >>,
    Player |-> <<
        Info("Player.inventory", <<S.i, S.inv, S.inventory>>, None, <<>>, None),
        Info("Player.say", <<S.say>>, "any", <<>>, None),
        Info("Player.emote", <<S.emote>>, "any", <<>>, None),
        Info("Player.whisper", <<S.wh, S.whisper>>, "any", <<S.to>>, "Player"),
        Info("Player.who", <<S.atwho>>, None, <<>>, None),
        Info("Player.quit", <<S.atquit>>, None, <<>>, None),
        Info("Player.describe", <<S.atdesc, S.atdescribe>>, "self", <<S.as>>, "any"),
        Info("Player.home", <<S.athome>>, None, <<>>, None),
        Info("Player.set_home", <<S.atsethome>>, None, <<>>, None) >>,
    Programmer |-> <<
        Info("Programmer.eval", <<S.eval, S.ateval>>, "any", <<>>, None),
        Info("Programmer.dig", <<S.atdig>>, "any", <<S.to>>, "any"),
        Info("Programmer.change_parent", <<S.atchparent>>, "any", <<S.to>>, "any"),
        Info("Programmer.rename", <<S.atrename>>, "any", <<S.to>>, "any"),
        Info("Programmer.create", <<S.atcreate>>, "any", <<S.as>>, "any"),
        Info("Programmer.dump_database", <<S.atdumpdb>>, None, <<>>, None),
        Info("Programmer.list_messages", <<S.atmessages>>, "any", <<>>, None),
        Info("Programmer.set_message", <<S.atmessage>>, "any", <<S.as>>, "any"),
        Info("Programmer.teleport", <<S.atteleport>>, "any", <<>>, None) >>,
    Containable |-> <<
        Info("Containable.put_in", <<S.put>>, "Object", <<S.in>>, "self"),
        Info("Containable.take_from", <<S.take, S.get, S.remove>>, "Object", <<S.from>>, "self"),
        Info("Containable.look_at_in", <<S.look, S.l>>, "any", <<S.in>>, "self") >>,
    Openable |-> <<
        Info("Openable.open", <<S.open>>, "self", <<>>, None),
        Info("Openable.close", <<S.close>>, "self", <<>>, None) >>,
    Lockable |-> <<
        Info("Lockable.open", <<S.open>>, "self", <<>>, None),
        Info("Lockable.lock", <<S.lock>>, "self", <<>>, None),
        Info("Lockable.unlock", <<S.unlock>>, "self", <<>>, None),
        Info("Lockable.lock_with", <<S.lock>>, "self", <<S.with, S.using>>, "Object"),
        Info("Lockable.unlock_with", <<S.unlock>>, "self", <<S.with, S.using>>, "Object") >>,
    StateToggle |-> << >> ]

\* cls.default_commands: the class attribute, found on the first class of the
\* linearisation that owns one (register_commands gives one to every class
\* with a decorated method; StateToggle declares an empty one).
default_commands(cls) ==
    LET owners == SelectSeq(MRO[cls], LAMBDA c : c \in DOMAIN Registered)
    IN  Registered[owners[1]]

\* One step of get_commands: the declarations for verb vb contributed by the
\* classes classes[k..], most-base class first.
RECURSIVE MergeCommands(_, _, _)
MergeCommands(classes, k, vb) ==
    IF k = 0 THEN <<>>
    ELSE SelectSeq(default_commands(classes[k]), LAMBDA info : InSeq(vb, info.verb))
         \o MergeCommands(classes, k - 1, vb)

\* s.get_commands(vb)[vb]: the grammar entries of candidate s for verb vb.
\* World.get_commands returns an empty table.
get_commands(s, vb) ==
    IF s = TheWorld THEN <<>>
    ELSE MergeCommands(MRO[ClassOf[s]], Len(MRO[ClassOf[s]]), vb)

-----------------------------------------------------------------------------
(* State *)

VARIABLES
    location,      \* x.location: the containing Thing, or None
    contents,      \* x.contents: the list of Things x owns
    exits,         \* place.exits: the list of <<key, exit>> in insertion order
    source,        \* exit.source
    destination,   \* exit.destination
    is_open,       \* Openable.is_open
    is_locked,     \* Lockable.is_locked, on the entities that have the attribute
    connection,    \* player.connection: a sid, or None
    active_sids,   \* World.active_sids: sid -> player id, None for an anonymous sid
    active_objects,\* World.active_objects: id -> the cached instance, or None
    db,            \* the store: id -> the saved record, or None
    players,       \* World.players: username -> player id, or None
    last_location, \* player.last_location: an instance, an id from a record, or None
    home,          \* player.home: a Place, or None
    password_hash, \* player.password_hash
    probe,         \* an entity outside the rooms: the Thing of a direct match_object
                   \* call with its result, a Clothing / HeldObject, or a Thing
                   \* with its custom commands
    awaiting,      \* per sid, the replies a suspended main.command has still to send
    told,          \* the messages emitted by the last operation, in order
    invoked,       \* the handlers the last operation invoked, in order
    raised         \* the exception that escaped the last operation, or None

vars == <<location, contents, exits, source, destination, is_open, is_locked,
          connection, active_sids, active_objects, db, players, last_location,
          home, password_hash, probe, awaiting, told, invoked, raised>>

\* The entities that compose Openable, and those that compose Lockable.
Openables == { x \in Things : IsInstance(x, "Openable") }
Lockables == { x \in Things : IsInstance(x, "Lockable") }

\* The part of the state a handler reads and writes, as one record; ret is
\* the value returned by the last call.
Current ==
    [ location |-> location, contents |-> contents, destination |-> destination,
      is_open |-> is_open, is_locked |-> is_locked,
      exits |-> exits, source |-> source,
      connection |-> connection, active_sids |-> active_sids,
      active_objects |-> active_objects, db |-> db, players |-> players,
      last_location |-> last_location, home |-> home,
      password_hash |-> password_hash,
      told |-> <<>>, invoked |-> <<>>, raised |-> None, ret |-> None ]

\* An exception leaves the handler: nothing after it in the call chain runs.
Raise(st, exc) == [st EXCEPT !.raised = exc]
Return(st, value) == [st EXCEPT !.ret = value]

\* A message: the template key (or the literal's name) and the Thing whose
\* get_message produced it.
Msg(key, of) == [key |-> key, of |-> of]

\* The event loop cannot take what the world hands to it: get_event_loop,
\* create_task or run_until_complete raises. The handlers of an event run
\* with a working loop unless their state says otherwise.
LoopFails(st) == "loop" \in DOMAIN st /\ st.loop = "failing"

\* call_async_partial with the except clause left out: the exception of the
\* event loop reaches the caller.
call_async_partial_raising(st, sent) ==
    IF LoopFails(st) THEN [st EXCEPT !.raised = "RuntimeError"]
    ELSE [st EXCEPT !.told = Append(@, sent)]

\* World.call_async_partial: the emit is handed to the event loop; whatever
\* the hand-over raises is swallowed.
call_async_partial(st, sent) ==
    IF LoopFails(st) THEN st
    ELSE [st EXCEPT !.told = Append(@, sent)]

\* World.tell_player: World.emit of the message to the player's connection.
tell_player(st, who, msg) == call_async_partial(st, [to |-> who, msg |-> msg])

\* Player.tell: the message is emitted only while the player has a connection.
tell(st, who, msg) ==
    IF st.connection[who] # None
    THEN tell_player(st, who, msg)
    ELSE st

\* Place.announce_all_but restricted to the entries of a contents list from
\* index k on: everything with a tell method that is not in who is told.
RECURSIVE TellEach(_, _, _, _, _)
TellEach(st, list, k, msg, who) ==
    IF k > Len(list) THEN st
    ELSE TellEach(IF list[k] \notin who /\ IsInstance(list[k], "Player")
                  THEN tell(st, list[k], msg) ELSE st,
                  list, k + 1, msg, who)

\* An announcement that excludes nobody; the movement scenario must tell it
\* from Place.announce_all_but.
announce_excluding_nobody(st, place, msg, who) ==
    IF ~IsInstance(place, "Place") THEN Raise(st, "AttributeError")
    ELSE TellEach(st, st.contents[place], 1, msg, {})

\* Place.announce and Place.announce_all_but (who: the set of excluded players)
\* Only a Place has them: on anything else the attribute lookup raises.
announce(st, place, msg) ==
    IF ~IsInstance(place, "Place") THEN Raise(st, "AttributeError")
    ELSE TellEach(st, st.contents[place], 1, msg, {})
announce_all_but(st, place, msg, who) ==
    IF ~IsInstance(place, "Place") THEN Raise(st, "AttributeError")
    ELSE TellEach(st, st.contents[place], 1, msg, who)

\* list.remove(x): the first occurrence of x is removed.
RemoveFirst(list, x) ==
    LET k == CHOOSE j \in 1..Len(list) : list[j] = x /\ \A h \in 1..(j - 1) : list[h] # x
    IN  SubSeq(list, 1, k - 1) \o SubSeq(list, k + 1, Len(list))

\* where.on_enter(what): a Place shows itself to an entering Player.
on_enter(st, where, what) ==
    IF IsInstance(where, "Place") /\ IsInstance(what, "Player")
    THEN tell(st, what, Msg("look_at", where))
    ELSE st

\* A move_to that appends to the new contents without leaving the old one;
\* containment exclusivity must tell it from BaseThing.move_to.
move_to_without_remove(st, x, where) ==
    IF where # None
    THEN on_enter([st EXCEPT !.location[x] = where, !.contents[where] = Append(@, x)],
                  where, x)
    ELSE [st EXCEPT !.location[x] = where]

\* BaseThing.move_to
move_to(st, x, where) ==
    LET old == st.location[x]
    IN  IF old # None /\ ~InSeq(x, st.contents[old])
        THEN Raise(st, "ValueError")
        ELSE LET s1 == IF old # None
                       THEN [st EXCEPT !.contents[old] = RemoveFirst(@, x)]
                       ELSE st
                 s2 == [s1 EXCEPT !.location[x] = where]
             IN  IF where # None
                 THEN on_enter([s2 EXCEPT !.contents[where] = Append(@, x)], where, x)
                 ELSE s2

\* Player.can_see
can_see(st, player, what) ==
    \/ st.location[what] = st.location[player]
    \/ st.location[what] = player
    \/ IsInstance(what, "Exit") /\ source[what] = st.location[player]

\* The names a Thing answers to: its lower-cased name and aliases, and the
\* last word of a name of several words.
names(self_name, self_aliases) ==
    LET WithLast(base, bits) ==
            IF Contains(self_name, S.sp) /\ ~InSeq(bits[Len(bits)], base)
            THEN Append(base, bits[Len(bits)])
            ELSE base
        From(name, aliases) == WithLast(<<name>> \o aliases, SplitWords(name))
    IN  From(Lower(self_name), [k \in 1..Len(self_aliases) |-> Lower(self_aliases[k])])
NamesOf(x) == names(NameOf[x], AliasesOf[x])

\* The part of match_object past the keywords, on the names of a Thing:
\* 1 when the lower-cased name is among them, 2 when one of them starts
\* with it, 0 otherwise.
match_names(self_names, name) ==
    IF InSeq(Lower(name), self_names) THEN 1
    ELSE IF \E k \in 1..Len(self_names) : StartsWith(self_names[k], Lower(name)) THEN 2
    ELSE 0

\* BaseThing.match_object: 1 for a strong match, 2 for a weak one, 0 for none.
match_object(st, x, name, player) ==
    IF name = S.me /\ player = x THEN 1
    ELSE IF name = S.here /\ player # None /\ st.location[player] = x THEN 1
    ELSE match_names(NamesOf(x), name)

\* The first entry of a list that match_object accepts, or None.
FirstMatch(st, list, name, player) ==
    LET hits == { k \in 1..Len(list) : match_object(st, list[k], name, player) # 0 }
    IN  IF hits = {} THEN None
        ELSE list[CHOOSE k \in hits : \A h \in hits : k <= h]

\* Player.my_match_object
Player_my_match_object(st, player, name) ==
    IF name \in {S.me, S.myself} THEN player
    ELSE IF name = S.here THEN st.location[player]
    ELSE FirstMatch(st, st.contents[player] \o st.contents[st.location[player]], name, player)

\* Containable.my_match_object
Containable_my_match_object(st, self, name, player) ==
    FirstMatch(st, st.contents[self], name, player)

-----------------------------------------------------------------------------
(* Capability mixins (mixins.py) *)

\* getattr(self, "is_" + which) and the matching setattr; the attribute is
\* missing (AttributeError) when self is outside the variable's domain.
HasFlag(st, self, which) ==
    IF which = "open" THEN self \in DOMAIN st.is_open ELSE self \in DOMAIN st.is_locked
GetFlag(st, self, which) ==
    IF which = "open" THEN st.is_open[self] ELSE st.is_locked[self]
SetFlag(st, self, which, value) ==
    IF which = "open"
    THEN [st EXCEPT !.is_open = [x \in DOMAIN @ \cup {self} |-> IF x = self THEN value ELSE @[x]]]
    ELSE [st EXCEPT !.is_locked = [x \in DOMAIN @ \cup {self} |-> IF x = self THEN value ELSE @[x]]]

\* The message keys f"toggle_{which}_..." of StateToggle.
ToggleKey ==
    [ open   |-> [ fail_true |-> "toggle_open_fail_true", fail_false |-> "toggle_open_fail_false",
                   on |-> "toggle_open_on", on_others |-> "toggle_open_on_others",
                   off |-> "toggle_open_off", off_others |-> "toggle_open_off_others" ],
      locked |-> [ fail_true |-> "toggle_locked_fail_true", fail_false |-> "toggle_locked_fail_false",
                   on |-> "toggle_locked_on", on_others |-> "toggle_locked_on_others",
                   off |-> "toggle_locked_off", off_others |-> "toggle_locked_off_others" ] ]

\* toggle_on without the elif that refuses an attribute already true.
toggle_on_unguarded(st, self, which, player) ==
    IF ~can_see(st, player, self)
    THEN Return(tell(st, player, Msg("fail_visible", self)), FALSE)
    ELSE Return(announce_all_but(tell(SetFlag(st, self, which, TRUE), player,
                                      Msg(ToggleKey[which].on, self)),
                                 st.location[player],
                                 Msg(ToggleKey[which].on_others, self), {player}),
                TRUE)

\* StateToggle.toggle_on
toggle_on(st, self, which, player) ==
    IF ~can_see(st, player, self)
    THEN Return(tell(st, player, Msg("fail_visible", self)), FALSE)
    ELSE IF ~HasFlag(st, self, which) THEN Raise(st, "AttributeError")
    ELSE IF GetFlag(st, self, which)
    THEN Return(tell(st, player, Msg(ToggleKey[which].fail_true, self)), FALSE)
    ELSE LET s1 == SetFlag(st, self, which, TRUE)
             s2 == tell(s1, player, Msg(ToggleKey[which].on, self))
             s3 == announce_all_but(s2, s2.location[player],
                                    Msg(ToggleKey[which].on_others, self), {player})
         IN  Return(s3, TRUE)

\* StateToggle.toggle_off
toggle_off(st, self, which, player) ==
    IF ~can_see(st, player, self)
    THEN Return(tell(st, player, Msg("fail_visible", self)), FALSE)
    ELSE IF ~HasFlag(st, self, which) THEN Raise(st, "AttributeError")
    ELSE IF ~GetFlag(st, self, which)
    THEN Return(tell(st, player, Msg(ToggleKey[which].fail_false, self)), FALSE)
    ELSE LET s1 == SetFlag(st, self, which, FALSE)
             s2 == tell(s1, player, Msg(ToggleKey[which].off, self))
             s3 == announce_all_but(s2, s2.location[player],
                                    Msg(ToggleKey[which].off_others, self), {player})
         IN  Return(s3, TRUE)

\* Openable.open: the paired object follows a successful toggle.
Openable_open(st, self, player) ==
    LET Paired(s1) ==
            IF s1.raised # None THEN s1
            ELSE IF s1.ret /\ open_paired_object[self] # None
            THEN Return(SetFlag(s1, open_paired_object[self], "open", TRUE), None)
            ELSE Return(s1, None)
    IN  Paired(toggle_on(st, self, "open", player))

\* Openable.close
Openable_close(st, self, player) ==
    LET Paired(s1) ==
            IF s1.raised # None THEN s1
            ELSE IF s1.ret /\ open_paired_object[self] # None
            THEN Return(SetFlag(s1, open_paired_object[self], "open", FALSE), None)
            ELSE Return(s1, None)
    IN  Paired(toggle_off(st, self, "open", player))

\* Lockable.open: the guard reads self.locked, an attribute no class of the
\* hierarchy defines (the state is is_locked), so the read raises.
Lockable_open(st, self, player) == Raise(st, "AttributeError")

\* Lockable.lock: the guard reads self.open, which is the bound method open
\* and so always true; toggle_on follows the if/elif whatever branch ran.
Lockable_lock(st, self, player) ==
    LET Done(s2) == IF s2.raised # None THEN s2 ELSE Return(s2, None)
    IN  Done(toggle_on(tell(st, player, Msg("lock_fail_open", self)),
                       self, "locked", player))

\* Lockable.unlock
Lockable_unlock(st, self, player) ==
    LET Done(s2) == IF s2.raised # None THEN s2 ELSE Return(s2, None)
    IN  Done(toggle_off(IF locked_by_player[self] \notin {None, player}
                        THEN tell(st, player, Msg("unlock_fail_player", self))
                        ELSE st,
                        self, "locked", player))

\* Containable.put_in
Containable_put_in(st, self, player, target) ==
    LET Moved(s1) ==
            IF s1.raised # None THEN s1
            ELSE announce_all_but(tell(s1, player, Msg("put_in", self)),
                                  s1.location[player], Msg("put_in_others", self), {player})
        Put(what) ==
            IF what = None
            THEN tell(st, player, Msg("put_in_no_match", self))
            ELSE Moved(move_to(st, what, self))
    IN  Put(Player_my_match_object(st, player, target))

\* Containable.take_from
Containable_take_from(st, self, player, target) ==
    LET Moved(s1) ==
            IF s1.raised # None THEN s1
            ELSE announce_all_but(tell(s1, player, Msg("take_from", self)),
                                  s1.location[player], Msg("take_from_others", self), {player})
        Take(what) ==
            IF what = None
            THEN tell(st, player, Msg("take_from_no_match", self))
            ELSE Moved(move_to(st, what, player))
    IN  Take(Containable_my_match_object(st, self, target, player))

\* Containable.look_at_in
Containable_look_at_in(st, self, player) ==
    IF self \notin DOMAIN st.is_open \/ st.is_open[self]
    THEN st
    ELSE tell(st, player, Msg("look_in_fail_closed", self))

-----------------------------------------------------------------------------
(* Entities (entities.py) *)

\* The classes that define each overridden method, and the method a call on
\* self resolves to: the first class of self's linearisation that defines it,
\* or for super() the first one after the calling class.
MethodOwners ==
    [ open  |-> {"OpenableExit", "Lockable", "Openable"},
      close |-> {"OpenableExit", "Openable"},
      use   |-> {"OpenableExit", "Exit", "Object"},
      to_dict |-> {"BaseThing", "Place", "Exit", "Player", "Openable", "Lockable"},
      init  |-> {"BaseThing", "Place", "Exit", "OpenableExit", "OpenableContainer",
                 "Player", "Openable", "Lockable"} ]
ResolveMethod(self, method, after) ==
    LET mro == MRO[ClassOf[self]]
        from == IF after = None THEN 0
                ELSE CHOOSE k \in 1..Len(mro) : mro[k] = after
        owners == { k \in (from + 1)..Len(mro) : mro[k] \in MethodOwners[method] }
    IN  IF owners = {} THEN None
        ELSE mro[CHOOSE k \in owners : \A h \in owners : k <= h]

\* BaseThing.look and Place.look: the player is told self.look_at(player).
BaseThing_look(st, self, player) == tell(st, player, Msg("look_at", self))
Place_look(st, self, player) == tell(st, player, Msg("look_at", self))

\* A value bound to a local name: it is computed once.
With(v, F(_)) == CHOOSE r \in { F(x) : x \in {v} } : TRUE

\* The next statement of a call chain: skipped once an exception is raised.
Then(st, F(_)) == CHOOSE r \in { IF s.raised # None THEN s ELSE F(s) : s \in {st} } : TRUE

\* An id held where an instance is expected later (type(x) is str).
\* Gone is the id of a Place whose record the store does not hold.
Gone == "C"
RefOf == [ x \in Things \cup {Gone} |-> "#" \o x ]
IsRef(v) == \E x \in DOMAIN RefOf : v = RefOf[x]
Deref(v) == CHOOSE x \in DOMAIN RefOf : v = RefOf[x]

RECURSIVE get_object(_, _, _)

\* Exit.use once the destination is an instance: the player is told, moved,
\* and both Places are told when the move took place.
Exit_travel(st, self, player, dest) ==
    Then(move_to(tell(st, player, Msg("leave", self)), player, dest),
         LAMBDA s2 :
             IF s2.location[player] = dest
             THEN announce_all_but(announce(s2, s2.source[self], Msg("leave_others", self)),
                                   s2.destination[self], Msg("arrive_others", self),
                                   {player})
             ELSE tell(s2, player, Msg("leave_fail_destination", self)))

\* Exit.use without the assignment of the resolved destination.
Exit_use_keeping_id(st, self, player) ==
    IF st.location[player] # st.source[self]
    THEN tell(st, player, Msg("leave_fail_location", self))
    ELSE IF st.destination[self] = None
    THEN tell(st, player, Msg("leave_fail_destination", self))
    ELSE IF IsRef(st.destination[self])
    THEN Then(get_object(st, Deref(st.destination[self]), TRUE),
              LAMBDA s1 :
                  IF s1.ret = None
                  THEN tell(s1, player, Msg("leave_fail_destination", self))
                  ELSE Exit_travel(s1, self, player, s1.ret))
    ELSE Exit_travel(st, self, player, st.destination[self])

\* Exit.use: a destination still held as an id is resolved through the world
\* first and replaces the id when it resolves.
Exit_use(st, self, player) ==
    IF st.location[player] # st.source[self]
    THEN tell(st, player, Msg("leave_fail_location", self))
    ELSE IF st.destination[self] = None
    THEN tell(st, player, Msg("leave_fail_destination", self))
    ELSE IF IsRef(st.destination[self])
    THEN Then(get_object(st, Deref(st.destination[self]), TRUE),
              LAMBDA s1 :
                  IF s1.ret = None
                  THEN tell(s1, player, Msg("leave_fail_destination", self))
                  ELSE Exit_travel([s1 EXCEPT !.destination[self] = s1.ret],
                                   self, player, s1.ret))
    ELSE Exit_travel(st, self, player, st.destination[self])

\* OpenableExit.use
OpenableExit_use(st, self, player) ==
    IF ~st.is_open[self]
    THEN tell(st, player, Msg("go_fail_closed", self))
    ELSE Exit_use(st, self, player)

\* OpenableExit.open: super().open, then (self.open being the bound method,
\* always true) the destination is told whenever there is one.
OpenableExit_open(st, self, player) ==
    LET Opened(s1) ==
            IF s1.raised # None THEN s1
            ELSE IF s1.destination[self] # None
            THEN announce(s1, s1.destination[self], Msg("open_destination", self))
            ELSE s1
    IN  Opened(IF ResolveMethod(self, "open", "OpenableExit") = "Lockable"
               THEN Lockable_open(st, self, player)
               ELSE Openable_open(st, self, player))

\* OpenableExit.close
OpenableExit_close(st, self, player) ==
    LET Closed(s1) ==
            IF s1.raised # None THEN s1
            ELSE IF s1.destination[self] # None
            THEN announce(s1, s1.destination[self], Msg("close_destination", self))
            ELSE s1
    IN  Closed(Openable_close(st, self, player))

\* Object.get
Object_get(st, self, player) ==
    IF ~can_see(st, player, self)
    THEN tell(st, player, Msg("fail_visible", self))
    ELSE LET Moved(s1) ==
                 IF s1.raised # None THEN s1
                 ELSE IF s1.location[self] = player
                 THEN announce_all_but(tell(s1, player, Msg("take", self)),
                                       s1.location[player], Msg("take_others", self), {player})
                 ELSE tell(s1, player, Msg("take_fail", self))
         IN  Moved(move_to(st, self, player))

\* Object.drop
Object_drop(st, self, player) ==
    IF st.location[self] # player
    THEN tell(st, player, Msg("fail_visible", self))
    ELSE LET Moved(s1) ==
                 IF s1.raised # None THEN s1
                 ELSE IF s1.location[self] = s1.location[player]
                 THEN announce_all_but(tell(s1, player, Msg("drop", self)),
                                       s1.location[player], Msg("drop_others", self), {player})
                 ELSE tell(s1, player, Msg("drop_fail", self))
         IN  Moved(move_to(st, self, st.location[player]))

\* Player.inventory
Player_inventory(st, self, player) ==
    IF player # self THEN tell(st, player, Msg("inventory_other", self))
    ELSE IF st.contents[self] = <<>> THEN tell(st, player, Msg("inventory_empty", self))
    ELSE tell(st, player, Msg("inventory", self))

\* Player.set_home
Player_set_home(st, self, player) ==
    IF st.home[self] = st.location[self]
    THEN tell(st, player, Msg("already_at_home", self))
    ELSE tell([st EXCEPT !.home[self] = st.location[self]], player,
              Msg("set_home", self))

\* Player.say
Player_say(st, self, argstr) ==
    IF argstr = <<>> THEN tell(st, self, Msg("say_nothing", self))
    ELSE IF st.location[self] = None THEN tell(st, self, Msg("say_nowhere", self))
    ELSE announce_all_but(tell(st, self, Msg("say", self)),
                          st.location[self], Msg("say_others", self), {self})

\* Player.emote
Player_emote(st, self, argstr) ==
    IF argstr = <<>> THEN tell(st, self, Msg("emote_nothing", self))
    ELSE IF st.location[self] = None THEN tell(st, self, Msg("emote_nowhere", self))
    ELSE announce(st, st.location[self], Msg("emote", self))

\* Programmer.eval on text without an object reference: Python's eval of the
\* text; of the texts the model enters only "1" is an expression that
\* evaluates, the others raise (SyntaxError, NameError).
Programmer_eval(st, self, argstr) ==
    IF argstr = S.one THEN tell(st, self, Msg("eval_result", self))
    ELSE Raise(st, "EvalError")

\* Programmer.dump_database: the notice goes to the Programmer the handler
\* belongs to, whoever issued the line, and every cached Thing is saved.
RECURSIVE dump_database(_)
Programmer_dump_database(st, self, player) ==
    dump_database(tell(st, self, Msg("dumping_database", self)))

-----------------------------------------------------------------------------
(* The command-resolution pipeline (world.py) *)

\* World.exit_names: shorthand -> direction, in the order of the dict.
exit_names ==
    << <<S.n, S.north>>, <<S.s, S.south>>, <<S.e, S.east>>, <<S.w, S.west>>,
       <<S.ne, S.northeast>>, <<S.nw, S.northwest>>, <<S.se, S.southeast>>,
       <<S.sw, S.southwest>>, <<S.up, S.up>>, <<S.down, S.down>> >>

\* dict lookup in a list of <<key, value>> pairs: the value, or None.
Lookup(pairs, key) ==
    LET hits == { k \in 1..Len(pairs) : pairs[k][1] = key }
    IN  IF hits = {} THEN None ELSE pairs[CHOOSE k \in hits : TRUE][2]
Values(pairs) == [k \in 1..Len(pairs) |-> pairs[k][2]]

\* The positional parameters each handler takes after self and before prep:
\* the least and the greatest number of positional arguments it accepts.
Signature ==
    [ f \in { "BaseThing.look", "Place.look", "Exit.use", "OpenableExit.use",
              "OpenableExit.open", "OpenableExit.close", "Openable.open", "Openable.close",
              "Lockable.open", "Lockable.lock", "Lockable.unlock", "Lockable.lock_with",
              "Lockable.unlock_with", "Object.get", "Object.drop", "Player.inventory",
              "Player.say", "Player.emote", "Programmer.eval", "Programmer.dump_database" }
        |-> <<1, 1>> ]
    @@ [ f \in { "Object.use", "Containable.look_at_in", "Player.who", "Player.quit",
                 "Player.describe", "Player.home", "Player.set_home" } |-> <<1, 2>> ]
    @@ [ f \in { "Containable.put_in", "Containable.take_from", "Player.whisper",
                 "Programmer.list_messages", "Programmer.teleport" } |-> <<2, 2>> ]
    @@ [ f \in { "Programmer.dig", "Programmer.change_parent", "Programmer.rename",
                 "Programmer.create", "Programmer.set_message" } |-> <<3, 3>> ]

\* The body of a handler, called as c["func"](s, player, *args, prep=, verb=).
HandlerBody(st, func, self, player, args) ==
    CASE func = "BaseThing.look"         -> BaseThing_look(st, self, player)
      [] func = "Place.look"             -> Place_look(st, self, player)
      [] func = "Exit.use"               -> Exit_use(st, self, player)
      [] func = "OpenableExit.use"       -> OpenableExit_use(st, self, player)
      [] func = "OpenableExit.open"      -> OpenableExit_open(st, self, player)
      [] func = "OpenableExit.close"     -> OpenableExit_close(st, self, player)
      [] func = "Openable.open"          -> Openable_open(st, self, player)
      [] func = "Openable.close"         -> Openable_close(st, self, player)
      [] func = "Lockable.open"          -> Lockable_open(st, self, player)
      [] func = "Lockable.lock"          -> Lockable_lock(st, self, player)
      [] func = "Lockable.unlock"        -> Lockable_unlock(st, self, player)
      [] func = "Object.get"             -> Object_get(st, self, player)
      [] func = "Object.drop"            -> Object_drop(st, self, player)
      [] func = "Containable.put_in"     -> Containable_put_in(st, self, player, args[1])
      [] func = "Containable.take_from"  -> Containable_take_from(st, self, player, args[1])
      [] func = "Containable.look_at_in" -> Containable_look_at_in(st, self, player)
      [] func = "Player.inventory"       -> Player_inventory(st, self, player)
      [] func = "Player.set_home"        -> Player_set_home(st, self, player)
      [] func = "Programmer.dump_database" -> Programmer_dump_database(st, self, player)

\* A handler call: arguments that do not fit the signature raise TypeError
\* before the body runs; otherwise the call is recorded and the body runs.
Invoke(st, func, self, player, args) ==
    IF 1 + Len(args) < Signature[func][1] \/ 1 + Len(args) > Signature[func][2]
    THEN Raise(st, "TypeError")
    ELSE HandlerBody([st EXCEPT !.invoked = Append(@, [func |-> func, self |-> self])],
                     func, self, player, args)

\* A method called on the player: say, emote, eval.
InvokeOnPlayer(st, func, player, argstr) ==
    LET s1 == [st EXCEPT !.invoked = Append(@, [func |-> func, self |-> player])]
    IN  CASE func = "Player.say"      -> Player_say(s1, player, argstr)
          [] func = "Player.emote"    -> Player_emote(s1, player, argstr)
          [] func = "Programmer.eval" -> Programmer_eval(s1, player, argstr)

\* A candidate list that puts the Place's contents before the inventory; the
\* fixed search order must tell it from the list of process_player_command.
search_order_contents_first(st, player) ==
    <<player, st.location[player]>>
    \o st.contents[st.location[player]]
    \o st.contents[player]
    \o Values(exits[st.location[player]])
    \o <<TheWorld>>

\* The candidates of the grammar search, in order.
search_order(st, player) ==
    <<player, st.location[player]>>
    \o st.contents[player]
    \o st.contents[st.location[player]]
    \o Values(exits[st.location[player]])
    \o <<TheWorld>>

\* Python truth of a role: None and the empty string are false.
Truthy(role) == role \notin {None, ""}

\* What one grammar entry does with the input.
Continue == [k |-> "continue", func |-> None, self |-> None, args |-> <<>>]
Yuck == [k |-> "yuck", func |-> None, self |-> None, args |-> <<>>]
CallOf(c, s, args) == [k |-> "call", func |-> c.func, self |-> s, args |-> args]

\* The loop over the prepositions c["prep"][k..] of one grammar entry.
RECURSIVE PrepLoop(_, _, _, _, _, _)
PrepLoop(st, s, c, k, player, argstr) ==
    IF k > Len(c.prep) THEN Continue
    ELSE LET Roles(d, i, next) ==
                 IF (~Truthy(c.dobj) /\ d # <<>>) \/ (Truthy(c.dobj) /\ d = <<>>) THEN next
                 ELSE IF (~Truthy(c.iobj) /\ i # <<>>) \/ (Truthy(c.iobj) /\ i = <<>>) THEN next
                 ELSE IF s = player /\ c.dobj = "any" /\ d # <<>> /\ c.iobj = "any" /\ i # <<>>
                 THEN CallOf(c, s, <<d, i>>)
                 ELSE IF c.dobj = "self"
                 THEN IF match_object(st, s, d, player) = 0 THEN next
                      ELSE CallOf(c, s, <<i>>)
                 ELSE IF c.iobj = "self"
                 THEN IF match_object(st, s, i, player) = 0 THEN next
                      ELSE IF d = <<>> THEN CallOf(c, s, <<>>)
                      ELSE CallOf(c, s, <<d>>)
                 ELSE next
             Pieces(bits, next) ==
                 IF Len(bits) # 2 THEN Yuck
                 ELSE Roles(Strip(bits[1]), Strip(bits[2]), next)
         IN  IF ~Contains(argstr, c.prep[k])
             THEN PrepLoop(st, s, c, k + 1, player, argstr)
             ELSE Pieces(SplitOn(argstr, S.sp \o c.prep[k] \o S.sp),
                         PrepLoop(st, s, c, k + 1, player, argstr))

\* The body of the loop over the grammar entries of one candidate.
EntryResult(st, s, c, player, nwords, argstr) ==
    IF nwords = 1 /\ ~Truthy(c.dobj) /\ c.prep = <<>> /\ ~Truthy(c.iobj)
    THEN CallOf(c, s, <<>>)
    ELSE IF nwords = 1 THEN Continue
    ELSE IF c.prep # <<>> THEN PrepLoop(st, s, c, 1, player, argstr)
    ELSE IF c.dobj = "self" /\ match_object(st, s, argstr, player) # 0
    THEN CallOf(c, s, <<>>)
    ELSE IF c.dobj = "any" THEN CallOf(c, s, <<argstr>>)
    ELSE Continue

\* The two nested loops, from entry j of candidate order[i] on: the first
\* entry that does not continue decides.
RECURSIVE GrammarSearch(_, _, _, _, _, _, _, _)
GrammarSearch(st, order, i, j, player, w1, nwords, argstr) ==
    IF i > Len(order) THEN [k |-> "nomatch", func |-> None, self |-> None, args |-> <<>>]
    ELSE LET Decide(r) ==
                 IF r.k = "continue"
                 THEN GrammarSearch(st, order, i, j + 1, player, w1, nwords, argstr)
                 ELSE r
             Entries(cmds) ==
                 IF j > Len(cmds)
                 THEN GrammarSearch(st, order, i + 1, 1, player, w1, nwords, argstr)
                 ELSE Decide(EntryResult(st, order[i], cmds[j], player, nwords, argstr))
         IN  Entries(get_commands(order[i], w1))

\* World.process_player_command
process_player_command(st, player, line) ==
    LET Dispatch(r) ==
            CASE r.k = "call"    -> Invoke(st, r.func, r.self, player, r.args)
              [] r.k = "yuck"    -> tell(st, player, Msg("yuck", player))
              [] r.k = "nomatch" -> tell(st, player, Msg("fail_command_match", player))
        TakeExit(exit) ==
            IF exit # None
            THEN Invoke(st, IF ResolveMethod(exit, "use", None) = "OpenableExit"
                            THEN "OpenableExit.use" ELSE "Exit.use",
                        exit, player, <<>>)
            ELSE tell(st, player, Msg("no_such_exit", player))
        Resolve(ch0, words, argstr, here) ==
            IF ~IsInstance(here, "Place") THEN Raise(st, "AttributeError")
            ELSE IF ch0 \in {S.squote, S.dquote}
            THEN InvokeOnPlayer(st, "Player.say", player, Drop(argstr, 1))
            ELSE IF words[1] = S.say
            THEN InvokeOnPlayer(st, "Player.say", player, Strip(Drop(argstr, 4)))
            ELSE IF ch0 \in {S.colon, S.semi}
            THEN InvokeOnPlayer(st, "Player.emote", player, Drop(argstr, 1))
            ELSE IF words[1] = S.emote
            THEN InvokeOnPlayer(st, "Player.emote", player, Strip(Drop(argstr, 6)))
            ELSE IF ch0 = S.pipe
            THEN IF IsInstance(player, "Programmer")
                 THEN InvokeOnPlayer(st, "Programmer.eval", player, Drop(argstr, 1))
                 ELSE Raise(st, "AttributeError")
            ELSE IF words[1] = S.eval
            THEN IF IsInstance(player, "Programmer")
                 THEN InvokeOnPlayer(st, "Programmer.eval", player, Strip(Drop(argstr, 5)))
                 ELSE Raise(st, "AttributeError")
            ELSE IF InSeq(argstr, Values(exit_names))
            THEN TakeExit(Lookup(exits[here], argstr))
            ELSE Dispatch(GrammarSearch(st, search_order(st, player), 1, 1, player,
                                        words[1], Len(words),
                                        Strip(ReplaceFirst(argstr, words[1]))))
        Shorthand(found) == IF found # None THEN found ELSE line
    IN  Resolve(<<line[1]>>, SplitWords(line), Shorthand(Lookup(exit_names, line)),
                st.location[player])

-----------------------------------------------------------------------------
(* The input lines the transport layer delivers *)

\* Lines about the objects of the start room, the sigils and an unknown word.
Lines ==
    { S.look, S.xyzzy,
      Join(<<S.look, S.gem>>), Join(<<S.look, S.at, S.gem>>),
      Join(<<S.get, S.gem>>), Join(<<S.drop, S.gem>>),
      Join(<<S.take, S.gem, S.from, S.box>>), Join(<<S.put, S.gem, S.in, S.box>>),
      Join(<<S.open, S.box>>), Join(<<S.close, S.box>>),
      S.squote \o S.hi, S.colon \o S.hi, S.pipe \o S.one,
      Join(<<S.say, S.hi>>), Join(<<S.emote, S.hi>>), Join(<<S.eval, S.one>>) }

\* Lines about the exits: directions, shorthands, the door.
DoorLines ==
    { S.north, S.n, S.south, S.door, Join(<<S.go, S.door>>),
      Join(<<S.open, S.door>>), Join(<<S.close, S.door>>),
      Join(<<S.lock, S.door>>), Join(<<S.unlock, S.door>>) }

-----------------------------------------------------------------------------
(* Initial states and operations *)

\* The graph the constructors build from the records: both players in the
\* start room with the box, the gem in the box, exits wired to their source.
-----------------------------------------------------------------------------
(* The store, the cache and the constructors *)

\* f with key k set to v, the key added when absent (an assignment to an
\* attribute or to a dict entry).
Put(f, k, v) == [x \in DOMAIN f \cup {k} |-> IF x = k THEN v ELSE f[x]]

\* f without the key k (del f[k]; an attribute an object does not have).
Del(f, k) == [x \in DOMAIN f \ {k} |-> f[x]]

\* data.get(key, default)
Get(data, key, default) == IF key \in DOMAIN data THEN data[key] ELSE default

\* config["start_room_id"]
start_room_id == "A"

\* The key under which persist_players saves the registry.
PlayersKey == "World_players"

\* The instances some attribute, list or table of the program refers to.
Referenced(st) ==
    { st.active_objects[x] : x \in DOMAIN st.active_objects }
    \cup { st.location[i] : i \in DOMAIN st.location }
    \cup UNION { { st.contents[i][k] : k \in 1..Len(st.contents[i]) } : i \in DOMAIN st.contents }
    \cup UNION { { st.exits[a][k][2] : k \in 1..Len(st.exits[a]) } : a \in DOMAIN st.exits }
    \cup { st.source[e] : e \in DOMAIN st.source }
    \cup { st.destination[e] : e \in DOMAIN st.destination }
    \cup { st.last_location[q] : q \in DOMAIN st.last_location }
    \cup { st.home[q] : q \in DOMAIN st.home }

\* The attributes of instance i are gone: nothing refers to the object.
Forget(st, i) ==
    [st EXCEPT !.location = Del(@, i), !.contents = Del(@, i),
               !.exits = Del(@, i), !.source = Del(@, i), !.destination = Del(@, i),
               !.is_open = Del(@, i), !.is_locked = Del(@, i),
               !.connection = Del(@, i), !.last_location = Del(@, i),
               !.home = Del(@, i), !.password_hash = Del(@, i)]

\* The objects nothing refers to any more are reclaimed.
Collect(st) ==
    LET Sweep(s, garbage) ==
            [s EXCEPT !.location = [x \in DOMAIN @ \ garbage |-> @[x]],
                      !.contents = [x \in DOMAIN @ \ garbage |-> @[x]],
                      !.exits = [x \in DOMAIN @ \ garbage |-> @[x]],
                      !.source = [x \in DOMAIN @ \ garbage |-> @[x]],
                      !.destination = [x \in DOMAIN @ \ garbage |-> @[x]],
                      !.is_open = [x \in DOMAIN @ \ garbage |-> @[x]],
                      !.is_locked = [x \in DOMAIN @ \ garbage |-> @[x]],
                      !.connection = [x \in DOMAIN @ \ garbage |-> @[x]],
                      !.last_location = [x \in DOMAIN @ \ garbage |-> @[x]],
                      !.home = [x \in DOMAIN @ \ garbage |-> @[x]],
                      !.password_hash = [x \in DOMAIN @ \ garbage |-> @[x]]]
    IN  Sweep(st, DOMAIN st.location \ Referenced(st))

\* The object a constructor call allocates for id: the first of the id's
\* instances nothing refers to, None when the model has no instance left.
Fresh(st, id) ==
    LET free == { k \in 1..Len(InstancesOf[id]) : InstancesOf[id][k] \notin Referenced(st) }
    IN  IF free = {} THEN None
        ELSE InstancesOf[id][CHOOSE k \in free : \A h \in free : k <= h]

\* The model has no instance left for a constructor call.
Exhausted == "InstancesExhausted"

\* cls.to_dict(self), each class calling super().to_dict() along the MRO of
\* self; BaseThing.to_dict calls no super.
RECURSIVE to_dict_of(_, _, _)
to_dict_of(st, self, cls) ==
    LET Super == to_dict_of(st, self, ResolveMethod(self, "to_dict", cls))
        IdOrNone(x) == IF x # None THEN IdOf(x) ELSE None
    IN  CASE cls = "BaseThing" ->
               [ id |-> IdOf(self), class |-> ClassOf[self],
                 location |-> IdOrNone(st.location[self]),
                 contents |-> [k \in 1..Len(st.contents[self]) |->
                                 IdOf(st.contents[self][k])] ]
          [] cls = "Place" ->
               [ exits |-> [k \in 1..Len(st.exits[self]) |-> IdOf(st.exits[self][k][2])] ]
               @@ Super
          [] cls = "Exit" ->
               [ source |-> IdOrNone(st.source[self]),
                 destination |-> IF IsRef(st.destination[self])
                                 THEN Deref(st.destination[self])
                                 ELSE IdOrNone(st.destination[self]) ]
               @@ Super
          [] cls = "Player" ->
               [ username |-> NameOf[self],
                 password_hash |-> st.password_hash[self],
                 home |-> IdOrNone(st.home[self]),
                 last_location |-> IF IsRef(st.last_location[self])
                                   THEN Deref(st.last_location[self])
                                   ELSE IdOrNone(st.last_location[self]) ]
               @@ Super
          [] cls = "Openable" ->
               [ open |-> st.is_open[self], open_paired_object |-> None ] @@ Super
          [] cls = "Lockable" ->
               [ is_locked |-> st.is_locked[self], locked_by_object |-> None,
                 locked_by_player |-> None, lock_paired_object |-> None ] @@ Super

\* self.to_dict()
to_dict(st, self) == to_dict_of(st, self, ResolveMethod(self, "to_dict", None))

\* World.save and BaseThing._save
save(st, data) == [st EXCEPT !.db = Put(@, data.id, data)]
BaseThing_save(st, self) == save(st, to_dict(st, self))

\* Place.add_exit: the table entry for the exit's lower-cased name is set,
\* in place when the name is there already.
add_exit(st, place, exit_obj) ==
    LET key == Lower(NameOf[exit_obj])
        Set(table) ==
            IF \E k \in 1..Len(table) : table[k][1] = key
            THEN [k \in 1..Len(table) |->
                    IF table[k][1] = key THEN <<key, exit_obj>> ELSE table[k]]
            ELSE Append(table, <<key, exit_obj>>)
    IN  IF exit_obj = None \/ ~IsInstance(place, "Place")
        THEN Raise(st, "AttributeError")
        ELSE [st EXCEPT !.exits[place] = Set(@), !.source = Put(@, exit_obj, place)]

RECURSIVE load(_, _, _)
RECURSIVE make_instance(_, _, _)
RECURSIVE init(_, _, _, _, _)
RECURSIVE LoadContents(_, _, _, _)
RECURSIVE LoadExits(_, _, _, _, _)

\* World.get_object
get_object(st, id, recursive) ==
    IF id = None THEN Return(st, None)
    ELSE IF id \in DOMAIN st.active_objects /\ st.active_objects[id] # None
    THEN Return(st, st.active_objects[id])
    ELSE load(st, id, recursive)

\* World.load constructing the instance of a record a second time once the
\* first construction has returned.
load_twice(st, id, recursive) ==
    IF id \notin DOMAIN st.db THEN Return(st, None)
    ELSE Then(make_instance(st, st.db[id], recursive),
              LAMBDA s : IF s.raised # None THEN s
                         ELSE make_instance(s, st.db[id], recursive))

\* World.load: whatever the cache holds, a record of the store is made into
\* a new instance.
load(st, id, recursive) ==
    IF id \notin DOMAIN st.db THEN Return(st, None)
    ELSE make_instance(st, st.db[id], recursive)

\* World.make_instance: the constructor runs, then the cache entry is set.
make_instance(st, data, recursive) ==
    With(Fresh(st, data.id), LAMBDA i :
        IF i = None THEN Raise(st, Exhausted)
        ELSE Then(Then(Forget(st, i),
                       LAMBDA s : init(s, i, data, ResolveMethod(i, "init", None),
                                       recursive)),
                  LAMBDA s : Return([s EXCEPT !.active_objects[data.id] = i], i)))

\* The loop of BaseThing.__init__ over the record's contents, from entry k.
LoadContents(st, self, list, k) ==
    IF k > Len(list) THEN st
    ELSE Then(Then(get_object(st, list[k], TRUE),
                   LAMBDA s : IF s.ret = None THEN Raise(s, "AttributeError")
                              ELSE move_to(s, s.ret, self)),
              LAMBDA s : LoadContents(s, self, list, k + 1))

\* The loop of Place.__init__ over the record's exits, from entry k.
LoadExits(st, self, list, k, recursive) ==
    IF k > Len(list) THEN st
    ELSE Then(Then(get_object(st, list[k], recursive),
                   LAMBDA s : add_exit(s, self, s.ret)),
              LAMBDA s : LoadExits(s, self, list, k + 1, recursive))

\* cls.__init__(self, id, world, data, recursive), each class calling the
\* constructors its code calls.
init(st, self, data, cls, recursive) ==
    CASE cls = "BaseThing" ->
           Then(Then([st EXCEPT !.active_objects[data.id] = self,
                                !.location = Put(@, self, None)],
                     LAMBDA s : IF Get(data, "location", None) # None
                                THEN Then(get_object(s, data.location, TRUE),
                                          LAMBDA s2 : move_to(s2, self, s2.ret))
                                ELSE s),
                LAMBDA s : LoadContents([s EXCEPT !.contents = Put(@, self, <<>>)],
                                        self, Get(data, "contents", <<>>), 1))
      [] cls = "Place" ->
           Then(init([st EXCEPT !.exits = Put(@, self, <<>>)], self, data,
                     ResolveMethod(self, "init", cls), recursive),
                LAMBDA s : IF s.exits[self] = <<>> /\ "exits" \in DOMAIN data
                           THEN LoadExits(s, self, data.exits, 1, recursive)
                           ELSE s)
      [] cls = "Exit" ->
           Then(Then(Then(init([st EXCEPT !.source = Put(@, self, None),
                                          !.destination = Put(@, self, None)],
                               self, data, ResolveMethod(self, "init", cls), recursive),
                          LAMBDA s : get_object(s, data.source, TRUE)),
                     LAMBDA s : IF s.ret # None THEN add_exit(s, s.ret, self) ELSE s),
                LAMBDA s :
                    IF ~recursive
                    THEN [s EXCEPT !.destination[self] =
                             IF data.destination = None THEN None
                             ELSE RefOf[data.destination]]
                    ELSE Then(get_object(s, data.destination, FALSE),
                              LAMBDA s2 : IF s2.ret # None
                                          THEN [s2 EXCEPT !.destination[self] = s2.ret]
                                          ELSE s2))
      [] cls \in {"OpenableExit", "OpenableContainer"} ->
           Then(init(st, self, data, ResolveMethod(self, "init", cls), recursive),
                LAMBDA s : init(s, self, data, "Openable", recursive))
      [] cls = "Openable" ->
           SetFlag(st, self, "open", Get(data, "open", TRUE))
      [] cls = "Lockable" ->
           Then(init(st, self, data, ResolveMethod(self, "init", cls), recursive),
                LAMBDA s : SetFlag(s, self, "locked", Get(data, "is_locked", FALSE)))
      [] cls = "Player" ->
           Then(init([st EXCEPT !.connection = Put(@, self, None),
                                !.home = Put(@, self, None)],
                     self, data, ResolveMethod(self, "init", cls), recursive),
                LAMBDA s : [s EXCEPT
                    !.password_hash = Put(@, self, data.password_hash),
                    !.last_location =
                        Put(@, self, IF Get(data, "last_location", None) = None
                                     THEN None
                                     ELSE RefOf[data.last_location])])

-----------------------------------------------------------------------------
(* Sessions: login, registration, disconnection *)

\* login with the move to the last location left out.
login_without_move(st, sid, player) ==
    tell([st EXCEPT !.connection[player] = sid,
                    !.active_sids[sid] = IdOf(player),
                    !.active_objects[IdOf(player)] = player],
         player, Msg("welcome_back", player))

\* World.login
login(st, sid, player) ==
    Then(Then(Then([st EXCEPT !.connection[player] = sid,
                              !.active_sids[sid] = IdOf(player),
                              !.active_objects[IdOf(player)] = player],
                   LAMBDA s :
                       IF s.last_location[player] # None /\ ~IsRef(s.last_location[player])
                       THEN Return(s, s.last_location[player])
                       ELSE get_object(s, IF s.last_location[player] = None
                                          THEN start_room_id
                                          ELSE Deref(s.last_location[player]),
                                       TRUE)),
              LAMBDA s : move_to(s, player, s.ret)),
         LAMBDA s : tell(s, player, Msg("welcome_back", player)))

\* World.handle_login: the value returned is left in ret, None after a
\* successful login.
handle_login(st, sid, username, password) ==
    IF username = <<>> \/ password = <<>>
    THEN Return(st, "Login requires both username and password.")
    ELSE IF st.active_sids[sid] # None
    THEN Return(st, "Already logged in?!")
    ELSE IF username \notin DOMAIN st.players
    THEN Raise(st, "KeyError")
    ELSE Then(load(st, st.players[username], TRUE),
              LAMBDA s :
                  IF s.ret = None \/ ~IsInstance(s.ret, "Player")
                  THEN Return(s, "Username is not associated with a player object")
                  ELSE IF ~check_password_hash(s.password_hash[s.ret], password)
                  THEN Return(s, "Username and password do not match.")
                  ELSE IF \E other \in DOMAIN s.active_sids :
                              s.active_sids[other] = s.players[username]
                  THEN Return(s, "is already logged in.")
                  ELSE Return(login(s, sid, s.ret), None))

\* The id uuid4 gives a new player: an id of the model no record, cache
\* entry or registration uses yet, None when the model has none left.
NewPlayerId(st, username) ==
    LET unused == { x \in Players :
                      /\ RecordClass[x] = "Player"
                      /\ RecordName[x] = username
                      /\ x \notin DOMAIN st.db
                      /\ st.active_objects[x] = None
                      /\ \A u \in DOMAIN st.players : st.players[u] # x }
    IN  IF unused = {} THEN None ELSE CHOOSE x \in unused : TRUE

\* World.persist_players
persist_players(st) == [st EXCEPT !.db = Put(@, PlayersKey, st.players)]

\* World.handle_register
handle_register(st, sid, username, password) ==
    IF username = <<>> \/ password = <<>>
    THEN Return(st, "Registration requires both username and password, please try again.")
    ELSE IF username \in DOMAIN st.players
    THEN Return(st, "is already taken, please try another username.")
    ELSE IF username \in {<<"i", "d">>, <<"c", "l", "a", "s", "s">>}
    THEN Return(st, "is invalid, please try again.")
    ELSE With(NewPlayerId(st, username), LAMBDA id :
         With(IF id = None THEN None ELSE Fresh(st, id), LAMBDA new_player :
             IF new_player = None THEN Raise(st, Exhausted)
             ELSE Then(Then(Then(Then(Forget(st, new_player),
                                      LAMBDA s : init(s, new_player,
                                          [id |-> id, class |-> "Player",
                                           password_hash |-> generate_password_hash(password)],
                                          "Player", TRUE)),
                                 LAMBDA s : get_object(s, start_room_id, TRUE)),
                            LAMBDA s : persist_players(
                                [BaseThing_save([s EXCEPT !.last_location[new_player] = s.ret],
                                                new_player)
                                 EXCEPT !.players = Put(@, username, id)])),
                       LAMBDA s : Return(login(s, sid, new_player),
                                         "Registration successful!"))))

\* World.on_disconnect
on_disconnect(st, sid) ==
    IF st.active_sids[sid] = None THEN Raise(st, "KeyError")
    ELSE IF st.active_objects[st.active_sids[sid]] = None THEN Raise(st, "KeyError")
    ELSE With(st.active_objects[st.active_sids[sid]], LAMBDA player :
         Then(Then(Then(st, LAMBDA s : announce_all_but(s, s.location[player],
                                           Msg("has_disconnected", player), {player})),
                   LAMBDA s : move_to([s EXCEPT !.last_location[player] =
                                                    s.location[player]],
                                      player, None)),
              LAMBDA s : BaseThing_save(
                             [s EXCEPT !.connection[player] = None,
                                       !.active_sids[sid] = None,
                                       !.active_objects[IdOf(player)] = None],
                             player)))

\* World.dump_database over the cached ids from position k of a list.
RECURSIVE DumpFrom(_, _, _)
DumpFrom(st, ids, k) ==
    IF k > Len(ids) THEN st
    ELSE Then(With(st.active_objects[ids[k]], LAMBDA o :
                  IF o = None THEN st
                  ELSE IF IsInstance(o, "Player")
                  THEN BaseThing_save([st EXCEPT !.last_location[o] = st.location[o]], o)
                  ELSE BaseThing_save(st, o)),
              LAMBDA s : DumpFrom(s, ids, k + 1))

\* The ids in a fixed order; each _save writes its own record only.
IdList == <<"A", "B", "p", "w", "north", "south", "door", "gem", "box">>
dump_database(st) == DumpFrom(st, IdList, 1)

\* sio.emit("message", msg, to=sid)
emit(st, sid, msg) ==
    [st EXCEPT !.told = Append(@, [to |-> sid, msg |-> Msg("message", msg)])]

\* command_pre_login with the argument count of login not checked: the last
\* word is taken as the password.
command_pre_login_any_arity(st, sid, command_text) ==
    IF command_text = <<>> THEN st
    ELSE With(SplitWords(Strip(command_text)), LAMBDA parts :
         IF parts = <<>> THEN st
         ELSE IF Lower(parts[1]) = S.login /\ Len(parts) >= 2
         THEN Then(handle_login(st, sid, parts[2], parts[Len(parts)]),
                   LAMBDA s : emit(s, sid, s.ret))
         ELSE emit(st, sid, "You must 'login <user> <pass>' or 'register <user> <pass> <email>' first."))

\* main.command for a sid that is not in the session map.
command_pre_login(st, sid, command_text) ==
    IF command_text = <<>> THEN st
    ELSE With(SplitWords(Strip(command_text)), LAMBDA parts :
         IF parts = <<>> THEN st
         ELSE IF Lower(parts[1]) = S.login /\ Len(parts) = 3
         THEN Then(handle_login(st, sid, parts[2], parts[3]),
                   LAMBDA s : emit(s, sid, s.ret))
         ELSE IF Lower(parts[1]) = S.register /\ Len(parts) = 4
         THEN Then(handle_register(st, sid, parts[2], parts[3]),
                   LAMBDA s : emit(s, sid, s.ret))
         ELSE IF Lower(parts[1]) \in {S.login, S.register}
         THEN emit(st, sid, "Usage: <verb> <username> <password> [email]")
         ELSE emit(st, sid, "You must 'login <user> <pass>' or 'register <user> <pass> <email>' first."))

InitLocation ==
    [ x \in Things |-> CASE x \in Players -> "A"
                         [] x = "box"     -> "A"
                         [] x = "gem"     -> "box"
                         [] OTHER         -> None ]
InitContents ==
    [ x \in Things |-> CASE x = "A"   -> <<"p", "w", "box">>
                         [] x = "box" -> <<"gem">>
                         [] OTHER     -> <<>> ]
InitExits ==
    [ x \in Places |-> CASE x = "A" -> << <<Lower(NameOf["north"]), "north">>,
                                         <<Lower(NameOf["door"]), "door">> >>
                         [] x = "B" -> << <<Lower(NameOf["south"]), "south">> >> ]

\* World.players as setup leaves it: username -> player id.
InitPlayers == (S.bob :> "p") @@ (S.wiz :> "w")

\* No main.command is suspended at its await.
NoReply == [sid \in Sids |-> <<>>]

\* No direct match_object call has been made.
NoProbe == [name |-> <<>>, aliases |-> <<>>, typed |-> <<>>, result |-> 0,
            called |-> FALSE]

\* The attributes of the constructed world with both players logged in, as
\* a handler sees them; the store is still empty.
WorldState ==
    [ location |-> InitLocation, contents |-> InitContents, exits |-> InitExits,
      source |-> [x \in ExitIds |-> ExitData[x].source],
      destination |-> [x \in ExitIds |-> ExitData[x].destination],
      is_open |-> [x \in Openables |-> FALSE], is_locked |-> <<>>,
      connection |-> [p |-> "s1", w |-> "s2"],
      active_sids |-> [s1 |-> "p", s2 |-> "w"],
      active_objects |-> [x \in Things |-> x],
      db |-> <<>>, players |-> InitPlayers,
      last_location |-> [x \in Players |-> None],
      home |-> [x \in Players |-> None],
      password_hash |-> [x \in Players |-> generate_password_hash(InitPassword[x])],
      told |-> <<>>, invoked |-> <<>>, raised |-> None, ret |-> None ]

\* The same world once the registry has been persisted and a Programmer's
\* @dumpdb has saved every cached Thing.
DumpedWorld == dump_database(persist_players(WorldState))

\* The constructed world with both players logged in.
InitWorld ==
    /\ location = InitLocation
    /\ contents = InitContents
    /\ exits = InitExits
    /\ source = [x \in ExitIds |-> ExitData[x].source]
    /\ destination = [x \in ExitIds |-> ExitData[x].destination]
    \* Openable.__init__: is_open is the record's "open" field
    /\ is_open \in [Openables -> BOOLEAN]
    \* Lockable.__init__ assigns is_locked from the record, but the constructor
    \* chain of LockableExit (OpenableExit.__init__) never runs it: the
    \* attribute is missing on every entity until something assigns it
    /\ is_locked = <<>>
    \* World.login has run for both players: each holds its sid
    /\ connection = [p |-> "s1", w |-> "s2"]
    /\ active_sids = [s1 |-> "p", s2 |-> "w"]
    /\ active_objects = [x \in Things |-> x]
    /\ db = DumpedWorld.db
    /\ players = InitPlayers
    /\ last_location = DumpedWorld.last_location
    /\ home = [x \in Players |-> None]
    /\ password_hash = [x \in Players |-> generate_password_hash(InitPassword[x])]
    /\ awaiting = NoReply
    /\ told = <<>>
    /\ invoked = <<>>
    /\ raised = None

Init == InitWorld /\ probe = NoProbe

\* The attributes of the world after a handler has run (or has been left by
\* an exception).
CommitWorld(st) ==
    /\ location' = st.location
    /\ contents' = st.contents
    /\ destination' = st.destination
    /\ is_open' = st.is_open
    /\ is_locked' = st.is_locked
    /\ told' = st.told
    /\ invoked' = st.invoked
    /\ raised' = st.raised
    /\ exits' = st.exits
    /\ source' = st.source
    /\ connection' = st.connection
    /\ active_sids' = st.active_sids
    /\ active_objects' = st.active_objects
    /\ db' = st.db
    /\ players' = st.players
    /\ last_location' = st.last_location
    /\ home' = st.home
    /\ password_hash' = st.password_hash

\* The state after a handler of the world has run.
Commit(st) == CommitWorld(st) /\ UNCHANGED <<probe, awaiting>>

\* main.command for a logged-in sid: one line through process_player_command,
\* which does nothing when the cache has no player for the id. Every line of
\* the model reads an attribute of player.location first.
Command(sid, line) ==
    /\ active_sids[sid] # None
    /\ Commit(IF active_objects[active_sids[sid]] = None THEN Current
              ELSE IF location[active_objects[active_sids[sid]]] = None
              THEN Raise(Current, "AttributeError")
              ELSE process_player_command(Current, active_objects[active_sids[sid]],
                                          line))

\* x.open(player), called directly on the entity.
CallOpen(x, player) ==
    /\ x \in Openables
    /\ Commit(IF ResolveMethod(x, "open", None) = "OpenableExit"
              THEN Invoke(Current, "OpenableExit.open", x, player, <<>>)
              ELSE Invoke(Current, "Openable.open", x, player, <<>>))

\* A Programmer's eval of setattr(#x, "is_locked", value): the assignment is
\* made and the programmer is told the repr of its result.
EvalSetLocked(player, x, value) ==
    /\ IsInstance(player, "Programmer")
    /\ connection[player] # None
    /\ x \in Lockables
    /\ Commit(InvokeOnPlayer(SetFlag(Current, x, "locked", value),
                              "Programmer.eval", player, S.one))

\* x.lock(player), called directly on the entity.
CallLock(x, player) ==
    /\ x \in Lockables
    /\ Commit(Invoke(Current, "Lockable.lock", x, player, <<>>))

\* x.move_to(where), called directly on the entity.
MoveTo(x, where) ==
    /\ x \in Things
    /\ where \in Things \cup {None}
    /\ Commit(move_to(Current, x, where))

\* The Things the direct moves relocate and the places they are moved to.
Movers == {"p", "gem", "box"}
Targets == {"A", "B", "p", "box", None}

NextMoveTo == \E x \in Movers, where \in Targets : MoveTo(x, where)

SpecMoveTo == Init /\ [][NextMoveTo]_vars

NextDoor ==
    \/ \E sid \in Sids, line \in DoorLines : Command(sid, line)
    \/ \E player \in Players, x \in Things, value \in BOOLEAN : EvalSetLocked(player, x, value)
    \/ \E x \in Things, player \in Players : CallOpen(x, player)
    \/ \E x \in Things, player \in Players : CallLock(x, player)

SpecDoor == Init /\ [][NextDoor]_vars

\* The names, alias lists and typed strings match_object is called with.
ProbeNames == {S.gem, S.gembox, S.GemBox, S.gemtabbox, S.Start}
ProbeAliases == {<<>>, <<S.Box>>, <<S.bob, S.gem>>}
ProbeTyped == {S.gem, S.Gem, S.box, S.Box, S.gembox, S.g, S.b, S.bo, S.bob, S.xyzzy,
               S.empty}

\* A Thing of the given name and aliases, as BaseThing.__init__ reads them
\* from a record; nothing has been matched against it yet.
InitMatch ==
    /\ InitWorld
    /\ \E n \in ProbeNames, a \in ProbeAliases :
          probe = [NoProbe EXCEPT !.name = n, !.aliases = a]

\* thing.match_object(typed, None) on that Thing.
Match(typed) ==
    /\ probe' = [probe EXCEPT !.typed = typed, !.called = TRUE,
                              !.result = match_names(names(probe.name, probe.aliases),
                                                     typed)]
    /\ UNCHANGED <<location, contents, exits, source, destination, is_open, is_locked,
                   connection, active_sids, active_objects, db, players,
                   last_location, home, password_hash, awaiting, told, invoked, raised>>

NextMatch == \E typed \in ProbeTyped : Match(typed)

SpecMatch == InitMatch /\ [][NextMatch]_vars

\* The world as setup_world leaves it on its first run: every Thing is
\* constructed and cached, the wizard is in no Place, nobody is connected
\* and the player is not registered yet.
SetupState ==
    [ WorldState EXCEPT
        !.location = [x \in Things \ {"p"} |-> IF x = "w" THEN None ELSE InitLocation[x]],
        !.contents = [x \in Things \ {"p"} |->
                        CASE x = "A" -> <<"box">> [] x = "box" -> <<"gem">>
                          [] OTHER -> <<>>],
        !.connection = [x \in {"w"} |-> None],
        !.active_sids = [sid \in Sids |-> None],
        !.active_objects = [x \in Things |-> IF x = "p" THEN None ELSE x],
        !.players = [u \in {S.wiz} |-> "w"],
        !.last_location = [x \in {"w"} |-> None],
        !.home = [x \in {"w"} |-> None],
        !.password_hash = [x \in {"w"} |-> generate_password_hash(InitPassword[x])] ]

\* setup_world saves every Thing and the registry.
SetupSaved == persist_players(dump_database(SetupState))

InitSession ==
    /\ location = SetupSaved.location
    /\ contents = SetupSaved.contents
    /\ exits = SetupSaved.exits
    /\ source = SetupSaved.source
    /\ destination = SetupSaved.destination
    /\ is_open = SetupSaved.is_open
    /\ is_locked = SetupSaved.is_locked
    /\ connection = SetupSaved.connection
    /\ active_sids = SetupSaved.active_sids
    /\ active_objects = SetupSaved.active_objects
    /\ db = SetupSaved.db
    /\ players = SetupSaved.players
    /\ last_location = SetupSaved.last_location
    /\ home = SetupSaved.home
    /\ password_hash = SetupSaved.password_hash
    /\ probe = NoProbe
    /\ awaiting = NoReply
    /\ told = <<>>
    /\ invoked = <<>>
    /\ raised = None

\* The lines typed on a connection that is not logged in.
PreLoginLines ==
    { Join(<<S.login, S.wiz, S.pw1>>), Join(<<S.login, S.wiz, S.pw2>>),
      Join(<<S.login, S.bob, S.pw1>>), Join(<<S.login, S.xyzzy, S.pw1>>),
      Join(<<S.register, S.bob, S.pw1, S.mail>>),
      Join(<<S.register, S.wiz, S.pw2, S.mail>>),
      Join(<<S.login, S.wiz>>), Join(<<S.register, S.bob, S.pw1>>),
      S.look, Join(<<S.say, S.hi>>), Join(<<S.get, S.gem>>) }

\* The lines typed on a connection that is logged in.
SessionLines == { S.north, Join(<<S.get, S.gem>>) }

\* An operation the model has an instance left for is carried out; the
\* objects nothing refers to afterwards are reclaimed.
Carry(st) == st.raised # Exhausted /\ Commit(Collect(st))

\* main.command for a sid that is not logged in.
PreLogin(sid, line) ==
    /\ active_sids[sid] = None
    /\ Carry(command_pre_login(Current, sid, line))

\* main.disconnect
Disconnect(sid) == Carry(on_disconnect(Current, sid))

NextSession ==
    \/ \E sid \in Sids, line \in PreLoginLines : PreLogin(sid, line)
    \/ \E sid \in Sids : Disconnect(sid)
    \/ \E sid \in Sids, line \in SessionLines : Command(sid, line)

SpecSession == InitSession /\ [][NextSession]_vars

\* The lines that change what the records of the store have to keep: where
\* the players are, their homes, and whether the box is open.
StoreLines ==
    { S.north, S.south, S.atsethome,
      Join(<<S.open, S.box>>), Join(<<S.close, S.box>>) }

NextStore == \E sid \in Sids, line \in StoreLines : Command(sid, line)

SpecStore == Init /\ [][NextStore]_vars

\* The lines that move Things between the players, the room and the box.
ContainLines ==
    { Join(<<S.get, S.gem>>), Join(<<S.drop, S.gem>>),
      Join(<<S.put, S.gem, S.in, S.box>>), Join(<<S.take, S.gem, S.from, S.box>>),
      Join(<<S.get, S.box>>), Join(<<S.drop, S.box>>),
      Join(<<S.put, S.box, S.in, S.box>>) }

NextContain == \E sid \in Sids, line \in ContainLines : Command(sid, line)

SpecContain == Init /\ [][NextContain]_vars

-----------------------------------------------------------------------------
(* Wearable and Holdable entities (mixins.py) *)

\* The value of an attribute that no constructor has assigned: reading it
\* raises AttributeError.
NoAttr == "NoAttr"

\* The classes that compose Wearable and Holdable, and the id of the entity
\* of each class.
ItemClasses == {"Clothing", "HeldObject"}
ItemId(it) == IF it.cls = "Clothing" THEN "hat" ELSE "sword"

\* A Clothing or HeldObject as its constructor leaves it, lying in a Place.
\* Both classes take __init__ from BaseThing, which assigns neither worn_by
\* nor held_by and calls no super().__init__: Wearable.__init__ and
\* Holdable.__init__ never run.
NewItem(cls, where) == [cls |-> cls, location |-> where, ref |-> NoAttr]

\* The keys of the default_messages of Wearable, Holdable and Object.
ItemMessages ==
    { "wear", "wear_others", "wear_failed_wearing", "wear_failed_not_in_contents",
      "wield", "wield_others", "wield_failed_wielding", "wield_failed_not_in_contents",
      "remove", "remove_others", "remove_failed_not_wearing",
      "unwield", "unwield_others", "unwield_failed_not_wielding",
      "take", "take_others", "drop", "drop_others", "fail_visible" }

\* item.get_message(which, player): the text registered under the key, the
\* empty text for a key nothing registers.
Item_get_message(it, which) ==
    IF which \in ItemMessages THEN Msg(which, ItemId(it)) ELSE Msg("", ItemId(it))

\* The outcome of a handler of the item: the world and the item.
ItemResult(st, it) == [st |-> st, it |-> it]

\* Wearable.wear
Wearable_wear(st, it, player) ==
    IF it.location # player
    THEN ItemResult(tell(st, player, Item_get_message(it, "wear_failed_not_in_contents")), it)
    ELSE IF it.ref = NoAttr THEN ItemResult(Raise(st, "AttributeError"), it)
    ELSE IF it.ref # None
    THEN ItemResult(tell(st, player, Item_get_message(it, "wear_failed_wearing")), it)
    ELSE ItemResult(announce_all_but(tell(st, player, Item_get_message(it, "wear")),
                                     st.location[player],
                                     Item_get_message(it, "wear_others"), {player}),
                    [it EXCEPT !.ref = player])

\* Holdable.wield: the key of the first branch is spelled weild_... in the code.
Holdable_wield(st, it, player) ==
    IF it.location # player
    THEN ItemResult(tell(st, player, Item_get_message(it, "weild_failed_not_in_contents")), it)
    ELSE IF it.ref = NoAttr THEN ItemResult(Raise(st, "AttributeError"), it)
    ELSE IF it.ref # None
    THEN ItemResult(tell(st, player, Item_get_message(it, "wield_failed_wielding")), it)
    ELSE ItemResult(announce_all_but(tell(st, player, Item_get_message(it, "wield")),
                                     st.location[player],
                                     Item_get_message(it, "wield_others"), {player}),
                    [it EXCEPT !.ref = player])

\* The handler the line 'wear <item>' or 'wield <item>' reaches.
WearOrWield(st, it, player) ==
    IF it.cls = "Clothing" THEN Wearable_wear(st, it, player)
    ELSE Holdable_wield(st, it, player)

\* Wearable.remove: refused unless the wearer is the player.
Wearable_remove(st, it, player) ==
    IF it.location # player
    THEN ItemResult(tell(st, player, Item_get_message(it, "wear_failed_not_in_contents")), it)
    ELSE IF it.ref = NoAttr THEN ItemResult(Raise(st, "AttributeError"), it)
    ELSE IF it.ref # player
    THEN ItemResult(tell(st, player, Item_get_message(it, "remove_failed_not_wearing")), it)
    ELSE ItemResult(announce_all_but(tell(st, player, Item_get_message(it, "remove")),
                                     st.location[player],
                                     Item_get_message(it, "remove_others"), {player}),
                    [it EXCEPT !.ref = None])

\* Holdable.unwield: the second test of the code is 'self.held_by is not
\* None', which refuses the item that is held and lets the one that is not
\* held through.
Holdable_unwield(st, it, player) ==
    IF it.location # player
    THEN ItemResult(tell(st, player, Item_get_message(it, "weild_failed_not_in_contents")), it)
    ELSE IF it.ref = NoAttr THEN ItemResult(Raise(st, "AttributeError"), it)
    ELSE IF it.ref # None
    THEN ItemResult(tell(st, player, Item_get_message(it, "unwield_failed_not_wielding")), it)
    ELSE ItemResult(announce_all_but(tell(st, player, Item_get_message(it, "unwield")),
                                     st.location[player],
                                     Item_get_message(it, "unwield_others"), {player}),
                    [it EXCEPT !.ref = None])

\* The handler the line 'remove <item>' or 'unwield <item>' reaches.
RemoveOrUnwield(st, it, player) ==
    IF it.cls = "Clothing" THEN Wearable_remove(st, it, player)
    ELSE Holdable_unwield(st, it, player)

\* Object.get and Object.drop on the item.
Item_get(st, it, player) ==
    ItemResult(announce_all_but(tell(st, player, Item_get_message(it, "take")),
                                st.location[player],
                                Item_get_message(it, "take_others"), {player}),
               [it EXCEPT !.location = player])
Item_drop(st, it, player) ==
    IF it.location # player
    THEN ItemResult(tell(st, player, Item_get_message(it, "fail_visible")), it)
    ELSE ItemResult(announce_all_but(tell(st, player, Item_get_message(it, "drop")),
                                     st.location[player],
                                     Item_get_message(it, "drop_others"), {player}),
                    [it EXCEPT !.location = st.location[player]])

\* The search order of a player's line reaches the item: it is carried by
\* the player or lies in the player's Place.
ItemInReach(it, player) ==
    /\ connection[player] # None
    /\ it.location \in {player, location[player]}

\* A world with one Clothing or HeldObject lying in the start room.
InitWear ==
    /\ InitWorld
    /\ \E cls \in ItemClasses : probe = NewItem(cls, "A")

ItemCommit(r) == probe' = r.it /\ CommitWorld(r.st) /\ UNCHANGED awaiting

\* The lines 'wear <item>' and 'wield <item>', 'remove <item>' and
\* 'unwield <item>', 'get <item>' and 'drop <item>'.
Wear(player) ==
    /\ ItemInReach(probe, player)
    /\ ItemCommit(WearOrWield(Current, probe, player))
Remove(player) ==
    /\ ItemInReach(probe, player)
    /\ ItemCommit(RemoveOrUnwield(Current, probe, player))
GetItem(player) ==
    /\ ItemInReach(probe, player)
    /\ probe.location # player
    /\ ItemCommit(Item_get(Current, probe, player))
DropItem(player) ==
    /\ ItemInReach(probe, player)
    /\ ItemCommit(Item_drop(Current, probe, player))

\* A Programmer's eval of setattr(#item, "worn_by" or "held_by", value).
EvalSetRef(player, value) ==
    /\ IsInstance(player, "Programmer")
    /\ connection[player] # None
    /\ ItemCommit(ItemResult(InvokeOnPlayer(Current, "Programmer.eval", player, S.one),
                             [probe EXCEPT !.ref = value]))

NextWear ==
    \/ \E player \in Players : Wear(player)
    \/ \E player \in Players : Remove(player)
    \/ \E player \in Players : GetItem(player)
    \/ \E player \in Players : DropItem(player)
    \/ \E player \in Players, value \in Players \cup {None} : EvalSetRef(player, value)

SpecWear == InitWear /\ [][NextWear]_vars

\* The destination field of the record of the exit south: the id of the
\* start room, the id of a Place the store has no record of, or none.
StoredDestinations == {"A", Gone, None}

\* The server started again on the store setup_world has left, with the
\* record of south holding destination d: nothing is cached, nobody is
\* connected, and the registry is the one read from the store.
Restarted(d) ==
    [SetupSaved EXCEPT !.active_objects = [x \in Things |-> None],
                       !.location = <<>>, !.contents = <<>>, !.exits = <<>>,
                       !.source = <<>>, !.destination = <<>>,
                       !.is_open = <<>>, !.is_locked = <<>>, !.connection = <<>>,
                       !.last_location = <<>>, !.home = <<>>, !.password_hash = <<>>,
                       !.db["south"].destination = d]

\* The variables hold the attributes of st and no operation has run.
InitFrom(st) ==
    /\ location = st.location
    /\ contents = st.contents
    /\ exits = st.exits
    /\ source = st.source
    /\ destination = st.destination
    /\ is_open = st.is_open
    /\ is_locked = st.is_locked
    /\ connection = st.connection
    /\ active_sids = st.active_sids
    /\ active_objects = st.active_objects
    /\ db = st.db
    /\ players = st.players
    /\ last_location = st.last_location
    /\ home = st.home
    /\ password_hash = st.password_hash
    /\ probe = NoProbe
    /\ awaiting = NoReply
    /\ told = <<>>
    /\ invoked = <<>>
    /\ raised = None

InitRestart == \E d \in StoredDestinations : InitFrom(Restarted(d))

\* The lines typed after a restart: the wizard's login, then the exits.
RestartLines == { S.north, S.south }

NextRestart ==
    \/ \E sid \in Sids : PreLogin(sid, Join(<<S.login, S.wiz, S.pw1>>))
    \/ \E sid \in Sids, line \in RestartLines : Command(sid, line)
    \/ \E sid \in Sids : Disconnect(sid)

SpecRestart == InitRestart /\ [][NextRestart]_vars

\* place.add_exit(exit_obj), called directly on a Place with an Exit.
AddExit(place, exit_obj) ==
    /\ place \in Places
    /\ exit_obj \in ExitIds
    /\ Commit(add_exit(Current, place, exit_obj))

NextAddExit == \E place \in Places, exit_obj \in ExitIds : AddExit(place, exit_obj)

SpecAddExit == Init /\ [][NextAddExit]_vars

\* The fields of the saved records that may name the id of a Thing the store
\* has no record of, as <<record id, field>>; <<None, None>> is the store
\* with no such reference.
DanglingFields ==
    { <<None, None>>, <<"gem", "location">>, <<"box", "contents">>, <<"B", "exits">>,
      <<"south", "source">>, <<"south", "destination">> }

\* The store setup_world has left, with the given field naming Gone.
Dangling(v) ==
    IF v[1] = None THEN Restarted("A")
    ELSE IF v[2] \in {"contents", "exits"}
    THEN [Restarted("A") EXCEPT !.db[v[1]][v[2]] = <<Gone>>]
    ELSE [Restarted("A") EXCEPT !.db[v[1]][v[2]] = Gone]

InitLoad == \E v \in DanglingFields : InitFrom(Dangling(v))

\* world.get_object(id), called directly on the world.
GetObject(id) == Carry(get_object(Current, id, TRUE))

NextLoad == \E id \in Things \cup {Gone} : GetObject(id)

SpecLoad == InitLoad /\ [][NextLoad]_vars

\* The handlers of an event run with the event loop as loop says.
WithLoop(loop) == [loop |-> loop] @@ Current

\* The handlers of an event run while the event loop fails.
Undelivered == WithLoop("failing")

\* The event loop takes what the world hands to it, or fails.
Loops == {"running", "failing"}

\* main.command for a logged-in sid and main.disconnect, with the event loop
\* running or failing.
CommandLoop(sid, line, loop) ==
    /\ active_sids[sid] # None
    /\ active_objects[active_sids[sid]] # None
    /\ location[active_objects[active_sids[sid]]] # None
    /\ Carry(process_player_command(WithLoop(loop), active_objects[active_sids[sid]], line))
DisconnectLoop(sid, loop) == Carry(on_disconnect(WithLoop(loop), sid))

\* The lines of the sessions whose messages may be lost.
DeliverLines == { S.north, S.south, Join(<<S.get, S.gem>>), Join(<<S.say, S.hi>>) }
DeliverPreLoginLines ==
    { Join(<<S.login, S.wiz, S.pw1>>), Join(<<S.register, S.bob, S.pw1, S.mail>>) }

NextDeliver ==
    \/ \E sid \in Sids, line \in DeliverPreLoginLines : PreLogin(sid, line)
    \/ \E sid \in Sids, line \in DeliverLines, loop \in Loops : CommandLoop(sid, line, loop)
    \/ \E sid \in Sids, loop \in Loops : DisconnectLoop(sid, loop)

SpecDeliver == InitSession /\ [][NextDeliver]_vars

\* main.command split where the coroutine can be suspended. Its only await is
\* the sio.emit of the reply of a sid that is not logged in, the last
\* statement of the handler: the handlers of other events run between the two
\* parts. main.disconnect and main.command of a logged-in sid have no await.

\* The part of the handler after the await with a mutation of the world in
\* it: the player of the connection is taken out of the room's list, the
\* first half of a transfer.
command_after_await_moving(st, reply) ==
    [st EXCEPT !.told = Append(@, reply),
               !.contents = [x \in DOMAIN @ |-> IF x = "A" THEN <<>> ELSE @[x]]]

\* The part of main.command after the await: the reply has been sent.
command_after_await(st, reply) == [st EXCEPT !.told = Append(@, reply)]

\* The handler reaches the await when it has a reply to send.
ReachesAwait(st) == st.raised = None /\ st.told # <<>>

\* The part of main.command before the await: the whole handler but the
\* reply, which the suspended coroutine keeps.
command_before_await(st) ==
    IF ReachesAwait(st) THEN [st EXCEPT !.told = SubSeq(@, 1, Len(@) - 1)] ELSE st
AwaitedReply(st) == IF ReachesAwait(st) THEN <<st.told[Len(st.told)]>> ELSE <<>>

ReceiveCommit(st, sid) ==
    /\ st.raised # Exhausted
    /\ CommitWorld(Collect(command_before_await(st)))
    /\ awaiting' = [awaiting EXCEPT ![sid] = AwaitedReply(st)]
    /\ UNCHANGED probe

\* main.command for a sid that is not logged in, up to its await.
Receive(sid, line) ==
    /\ active_sids[sid] = None
    /\ Len(awaiting[sid]) = 0
    /\ ReceiveCommit(command_pre_login(Current, sid, line), sid)

\* The suspended main.command of sid is resumed.
Resume(sid) ==
    /\ Len(awaiting[sid]) > 0
    /\ CommitWorld(command_after_await(Current, awaiting[sid][1]))
    /\ awaiting' = [awaiting EXCEPT ![sid] = <<>>]
    /\ UNCHANGED probe

\* The lines of the connections whose events arrive while others are
\* suspended.
AsyncPreLoginLines ==
    { Join(<<S.login, S.wiz, S.pw1>>), Join(<<S.login, S.wiz, S.pw2>>),
      Join(<<S.register, S.bob, S.pw1, S.mail>>), S.look }

NextAsync ==
    \/ \E sid \in Sids, line \in AsyncPreLoginLines : Receive(sid, line)
    \/ \E sid \in Sids : Resume(sid)
    \/ \E sid \in Sids : Disconnect(sid)
    \/ \E sid \in Sids, line \in SessionLines : Command(sid, line)

SpecAsync == InitSession /\ [][NextAsync]_vars

\* The id of the world, under which its config record is stored.
WorldKey == "World"

\* World(db, world_id): nothing is cached, nobody is connected, and the
\* registry is the one read from the store. The config is the store's record
\* of the world id.
World_init(store) ==
    [SetupState EXCEPT !.active_objects = [x \in Things |-> None],
                       !.location = <<>>, !.contents = <<>>, !.exits = <<>>,
                       !.source = <<>>, !.destination = <<>>,
                       !.is_open = <<>>, !.is_locked = <<>>, !.connection = <<>>,
                       !.last_location = <<>>, !.home = <<>>, !.password_hash = <<>>,
                       !.db = store, !.players = Get(store, PlayersKey, <<>>)]

\* The starter map as its constructors leave it in the new World.
Seeded(store) ==
    [SetupState EXCEPT !.db = store, !.players = Get(store, PlayersKey, <<>>),
                       !.told = <<[to |-> "stdout",
                                   msg |-> Msg("Initializing game world...", WorldKey)]>>]

\* setup_world without its world.save(config).
setup_world_without_config(store) ==
    IF WorldKey \in DOMAIN store THEN World_init(store)
    ELSE Then(dump_database(Seeded(store)), LAMBDA s :
              persist_players([s EXCEPT !.players = Put(@, S.wiz, "w")]))

\* setup_world(db, world_id)
setup_world(store) ==
    IF WorldKey \in DOMAIN store THEN World_init(store)
    ELSE Then(save(dump_database(Seeded(store)),
                   [id |-> WorldKey, start_room_id |-> start_room_id]),
              LAMBDA s : persist_players([s EXCEPT !.players = Put(@, S.wiz, "w")]))

\* The stores a server is started on: an empty one, one with the record of
\* a Place of some other world, and one with the config record only.
Stores ==
    { <<>>,
      Put(<<>>, Gone, [id |-> Gone, class |-> "Place", location |-> None,
                       contents |-> <<>>, exits |-> <<>>]),
      Put(<<>>, WorldKey, [id |-> WorldKey, start_room_id |-> start_room_id]) }

\* The server is not running yet; the store is one of Stores.
InitSetup == \E store \in Stores : InitFrom(World_init(store))

\* The server is started, or started again, on the store.
SetupWorld == Commit(setup_world(db))

\* The events of the connections are served once setup_world has run.
NextSetup ==
    \/ SetupWorld
    \/ WorldKey \in DOMAIN db /\ \E sid \in Sids : PreLogin(sid, Join(<<S.login, S.wiz, S.pw1>>))
    \/ WorldKey \in DOMAIN db /\ \E sid \in Sids : PreLogin(sid, Join(<<S.register, S.bob, S.pw1, S.mail>>))
    \/ WorldKey \in DOMAIN db /\ \E sid \in Sids, line \in SessionLines : Command(sid, line)
    \/ WorldKey \in DOMAIN db /\ \E sid \in Sids : Disconnect(sid)

SpecSetup == InitSetup /\ [][NextSetup]_vars

\* Custom commands of an instance (entities.py): self.commands and the table
\* get_commands caches in self.commands_cached.

\* The verbs looked up and registered: one the class declares, one it does
\* not.
CmdVerbs == {S.get, S.xyzzy}

\* The declarations register_command is called with.
CustomInfos ==
    { Info("custom.get", <<S.get>>, "self", <<>>, None),
      Info("custom.xyzzy", <<S.xyzzy>>, "self", <<>>, None),
      Info("custom.both", <<S.get, S.xyzzy>>, "self", <<>>, None) }

\* The number of register_command calls on one instance.
MaxRegistered == 3

\* An instance of cls as BaseThing.__init__ leaves it: no custom commands and
\* an empty cache. cached holds the lists the cache owns; shared holds the
\* verbs whose list in the cache is the very list object of self.commands.
NewCommandThing(cls) ==
    [cls |-> cls, commands |-> <<>>, cached |-> <<>>, shared |-> {},
     registered |-> 0, ret |-> <<>>]

\* The declarations of the classes of cls for the verbs of CmdVerbs.
ClassCommands(cls) ==
    [vb \in {v \in CmdVerbs : MergeCommands(MRO[cls], Len(MRO[cls]), v) # <<>>}
        |-> MergeCommands(MRO[cls], Len(MRO[cls]), vb)]

\* self.commands_cached as a table.
CachedTable(it) ==
    [vb \in DOMAIN it.cached \cup it.shared
        |-> IF vb \in it.shared THEN it.commands[vb] ELSE it.cached[vb]]

\* BaseThing.get_commands(match, allow_cached): the cached table is used when
\* it is not empty; otherwise the class declarations are copied, the lists of
\* self.commands are appended to them, and a verb no class declares gets the
\* list of self.commands itself.
BaseThing_get_commands(it, match, allow_cached) ==
    With(IF allow_cached /\ DOMAIN it.cached \cup it.shared # {} THEN it
         ELSE [it EXCEPT
                 !.cached = [vb \in DOMAIN ClassCommands(it.cls) |->
                                ClassCommands(it.cls)[vb]
                                \o Get(it.commands, vb, <<>>)],
                 !.shared = DOMAIN it.commands \ DOMAIN ClassCommands(it.cls)],
         LAMBDA i2 : [i2 EXCEPT !.ret = Get(CachedTable(i2), match, <<>>)])

\* BaseThing.register_command(info), from the verb info.verb[k] on.
RECURSIVE RegisterFrom(_, _, _)
RegisterFrom(it, info, k) ==
    IF k > Len(info.verb) THEN it
    ELSE RegisterFrom([it EXCEPT !.commands =
                          Put(@, info.verb[k], Get(@, info.verb[k], <<>>) \o <<info>>)],
                      info, k + 1)
BaseThing_register_command(it, info) ==
    [RegisterFrom(it, info, 1) EXCEPT !.registered = @ + 1, !.ret = <<>>]

InitCommands == InitWorld /\ probe = NewCommandThing("Object")

GetCommands(match, allow_cached) ==
    /\ probe' = BaseThing_get_commands(probe, match, allow_cached)
    /\ CommitWorld(Current)
    /\ UNCHANGED awaiting

RegisterCommand(info) ==
    /\ probe.registered < MaxRegistered
    /\ probe' = BaseThing_register_command(probe, info)
    /\ CommitWorld(Current)
    /\ UNCHANGED awaiting

NextCommands ==
    \/ \E match \in CmdVerbs, allow_cached \in BOOLEAN : GetCommands(match, allow_cached)
    \/ \E info \in CustomInfos : RegisterCommand(info)

SpecCommands == InitCommands /\ [][NextCommands]_vars

Next == \E sid \in Sids, line \in Lines : Command(sid, line)

Spec == Init /\ [][Next]_vars

-----------------------------------------------------------------------------
(* Properties *)

\* The number of occurrences of x in a list.
RECURSIVE Count(_, _)
Count(list, x) ==
    IF list = <<>> THEN 0
    ELSE (IF Head(list) = x THEN 1 ELSE 0) + Count(Tail(list), x)

\* C1: containment exclusivity. After any sequence of move_to calls from the
\* constructed graph, a Thing whose location is set occurs exactly once in
\* the contents of its location and in no other contents list; a Thing
\* whose location is None occurs in no contents list.
C1_ContainmentExclusivity ==
    \A x \in Things :
        /\ location[x] # None => Count(contents[location[x]], x) = 1
        /\ \A y \in Things : y # location[x] => Count(contents[y], x) = 0

\* C1 is exercised: the gem was moved out of the box into the player, the
\* box was moved to None, and the player walked into the other room.
C1_Witness ==
    /\ location["gem"] = "p"
    /\ location["box"] = None
    /\ location["p"] = "B"
    /\ contents["B"] = <<"p">>
    /\ contents["box"] = <<>>

\* A message msg was sent to who.
Sent(list, who, msg) == \E k \in 1..Len(list) : list[k] = [to |-> who, msg |-> msg]

\* who was sent some message.
SentAny(list, who) == \E k \in 1..Len(list) : list[k].to = who

\* C2: open-while-locked is impossible. For an entity composing Lockable
\* whose is_locked is true, neither the line "open <name>" resolved by the
\* pipeline nor a direct call of its open by any player changes is_open
\* from false to true.
C2_OpenWhileLockedImpossible ==
    [][\A x \in Lockables :
          ( /\ x \in DOMAIN is_locked
            /\ is_locked[x]
            /\ ~is_open[x]
            /\ \/ \E sid \in Sids : Command(sid, Join(<<S.open, Lower(NameOf[x])>>))
               \/ \E player \in Players : CallOpen(x, player) )
          => ~is_open'[x]]_vars

\* C3: lock precondition. A call of lock on a Lockable whose is_open is true
\* sends the caller the "close it first" message and leaves is_locked and
\* every other field of the entity unchanged.
C3_LockFailsWhileOpen ==
    [][\A x \in Lockables, player \in Players :
          (is_open[x] /\ CallLock(x, player))
          => /\ Sent(told', player, Msg("lock_fail_open", x))
             /\ is_locked' = is_locked
             /\ is_open' = is_open
             /\ destination' = destination
             /\ location' = location]_vars

\* C4: closed-container scenario. While the box is closed, holds the gem and
\* is within the player's reach, "take gem from box" moves nothing and the
\* player is told a failure; while it is open, the same line moves the gem
\* from the box's contents to the player's contents.
C4_TakeFromClosedContainer ==
    [][\A sid \in Sids :
          LET player == active_sids[sid]
          IN  ( /\ location["gem"] = "box"
                /\ location["box"] \in {player, location[player]}
                /\ Command(sid, Join(<<S.take, S.gem, S.from, S.box>>)) )
              => IF is_open["box"]
                 THEN /\ location'["gem"] = player
                      /\ Count(contents'[player], "gem") = 1
                      /\ Count(contents'["box"], "gem") = 0
                 ELSE /\ location' = location
                      /\ contents' = contents
                      /\ SentAny(told', player)
                      /\ ~Sent(told', player, Msg("take_from", "box"))]_vars

\* C5: movement scenario. When a player in a Place with an exit named north
\* enters "north" or "n", the player ends in the destination's contents and
\* out of the source's; every other connected occupant of the source is sent
\* the departure announcement, every connected occupant of the destination
\* but the mover the arrival announcement, and the mover neither.
C5_Movement ==
    [][\A sid \in Sids, line \in {S.north, S.n} :
          LET player == active_sids[sid]
              a == location[player]
              e == Lookup(exits[a], S.north)
              b == destination[e]
          IN  (e # None /\ b # a /\ Command(sid, line))
              => /\ location'[player] = b
                 /\ Count(contents'[b], player) = 1
                 /\ Count(contents'[a], player) = 0
                 /\ \A o \in Players \ {player} :
                       /\ (location[o] = a /\ connection[o] # None)
                          => Sent(told', o, Msg("leave_others", e))
                       /\ (location[o] = b /\ connection[o] # None)
                          => Sent(told', o, Msg("arrive_others", e))
                 /\ ~Sent(told', player, Msg("leave_others", e))
                 /\ ~Sent(told', player, Msg("arrive_others", e))]_vars

\* C5 is exercised: a player has walked north into the room where the other
\* player stands, and that player was sent the arrival announcement.
C5_Witness ==
    /\ invoked = <<[func |-> "Exit.use", self |-> "north"]>>
    /\ \E player \in Players, o \in Players :
          /\ o # player
          /\ location[player] = "B"
          /\ location[o] = "B"
          /\ Sent(told, player, Msg("leave", "north"))
          /\ Sent(told, o, Msg("arrive_others", "north"))

\* C6: exit-name priority. For every Exit registered in the player's Place
\* under a key, whatever its name, the line that is exactly the key invokes
\* that Exit's traversal handler and nothing else.
C6_ExitNamePriority ==
    [][\A sid \in Sids, key \in {S.north, S.south, S.door} :
          LET e == Lookup(exits[location[active_sids[sid]]], key)
          IN  (e # None /\ Command(sid, key))
              => invoked' = <<[func |-> IF ResolveMethod(e, "use", None) = "OpenableExit"
                                        THEN "OpenableExit.use" ELSE "Exit.use",
                               self |-> e]>>]_vars

\* The lines that reach the grammar search: no sigil, no say, emote or eval.
GrammarLines ==
    { line \in Lines :
        /\ <<line[1]>> \notin {S.squote, S.dquote, S.colon, S.semi, S.pipe}
        /\ SplitWords(line)[1] \notin {S.say, S.emote, S.eval} }

\* The candidate order the specification fixes: the player, the player's
\* Place, the inventory, the Place's contents, the Place's exits, the World.
FixedOrder(player) ==
    <<player, location[player]>>
    \o contents[player]
    \o contents[location[player]]
    \o Values(exits[location[player]])
    \o <<TheWorld>>

\* The input satisfies one of the grammars candidate s registers for its verb.
Satisfies(s, player, line) ==
    \E j \in 1..Len(get_commands(s, SplitWords(line)[1])) :
        EntryResult(Current, s, get_commands(s, SplitWords(line)[1])[j], player,
                    Len(SplitWords(line)),
                    Strip(ReplaceFirst(line, SplitWords(line)[1]))).k = "call"

\* The least element of a non-empty set of numbers.
Least(set) == CHOOSE i \in set : \A j \in set : i <= j

C8_ExactlyOneOutcome ==
    [][\A sid \in Sids, line \in Lines :
          Command(sid, line)
          => \/ Len(invoked') = 1
             \/ invoked' = <<>> /\ SentAny(told', active_sids[sid])]_vars

\* C9: user input errors are never fatal. Whatever line a logged-in Player
\* or Programmer enters, no exception escapes process_player_command.
C9_NeverFatal == raised = None

\* C10: stacked grammars route alike. When a candidate answers to the name
\* gem, "look at gem" invokes a look handler and has the effect of "look gem".
C10_LookAtRoutesLikeLook ==
    [][\A sid \in Sids :
          ( /\ \E i \in 1..Len(FixedOrder(active_sids[sid])) :
                  /\ FixedOrder(active_sids[sid])[i] # TheWorld
                  /\ match_object(Current, FixedOrder(active_sids[sid])[i], S.gem,
                                  active_sids[sid]) # 0
            /\ Command(sid, Join(<<S.look, S.at, S.gem>>)) )
          => /\ Command(sid, Join(<<S.look, S.gem>>))
             /\ Len(invoked') = 1
             /\ invoked'[1].func \in {"BaseThing.look", "Place.look"}]_vars

\* The strength with which each candidate of the fixed order that satisfies
\* a grammar of the line answers to the name: 1 strong, 2 weak.
Strength(player, line, name) ==
    [ i \in { k \in 1..Len(FixedOrder(player)) :
                Satisfies(FixedOrder(player)[k], player, line) }
      |-> match_object(Current, FixedOrder(player)[i], name, player) ]

\* C11: name matching precedence. When the earliest candidate that registers
\* the verb with a 'self' direct object answers to the typed name gem only by
\* prefix, and a later such candidate answers to it exactly, the handler
\* invoked is that of the exact-match candidate.
C11_ExactPreferredOverPrefix ==
    \A sid \in Sids, line \in {Join(<<S.look, S.gem>>), Join(<<S.get, S.gem>>)} :
        LET player == active_sids[sid]
            Holds(r, order, str) ==
                ( /\ DOMAIN str # {}
                  /\ str[Least(DOMAIN str)] = 2
                  /\ \E j \in DOMAIN str : str[j] = 1 )
                => /\ Len(r.invoked) = 1
                   /\ r.invoked[1].self
                        = order[Least({ j \in DOMAIN str : str[j] = 1 })]
        IN  Holds(process_player_command(Current, player, line),
                  FixedOrder(player), Strength(player, line, S.gem))

\* The last whitespace-delimited word of a string.
LastWord(s) == SplitWords(s)[Len(SplitWords(s))]

\* The strings the specification lets a Thing answer to: its lower-cased
\* name, its lower-cased aliases and the last word of its name.
AnswersTo(name, aliases) ==
    {Lower(name), LastWord(Lower(name))}
    \cup { Lower(aliases[k]) : k \in 1..Len(aliases) }

\* C12: match_object result. For a Thing and a typed string (not one of the
\* keywords), the result is the strong-match value exactly when the
\* lower-cased string equals the lower-cased name, a lower-cased alias or the
\* last whitespace-delimited word of the name; otherwise the weak-match value
\* exactly when one of those starts with it; otherwise no-match.
C12_MatchObjectResult ==
    probe.called
    => LET Expected(answers, typed) ==
               IF typed \in answers THEN 1
               ELSE IF \E a \in answers : StartsWith(a, typed) THEN 2
               ELSE 0
       IN  probe.result = Expected(AnswersTo(probe.name, probe.aliases),
                                   Lower(probe.typed))

\* The usernames typed at login and registration.
Usernames == {S.wiz, S.bob, S.xyzzy}

\* The player the username is registered for is logged in on some sid.
LoggedIn(user) == \E other \in Sids : active_sids[other] = players[user]

\* The password is not the one the username was registered with.
WrongPassword(user, pw) == ~check_password_hash(db[players[user]].password_hash, pw)

\* The value a rejected call has to return: no exception, a descriptive
\* string, and the sid not in the session map.
ErrorValue(r, sid) ==
    /\ r.raised = None
    /\ r.ret # None
    /\ r.active_sids[sid] = None

\* C13: authentication errors are values. On an anonymous connection,
\* handle_login with an unregistered username, a wrong password or an
\* already logged-in player, and handle_register with a username that is
\* taken, each return a descriptive string without raising, and the sid is
\* not added to the session map.
C13_AuthErrorsAreValues ==
    \A sid \in Sids, user \in Usernames, pw \in Passwords :
        active_sids[sid] = None
        => /\ ( \/ user \notin DOMAIN players
                \/ WrongPassword(user, pw)
                \/ LoggedIn(user) )
              => ErrorValue(handle_login(Current, sid, user, pw), sid)
           /\ user \in DOMAIN players
              => ErrorValue(handle_register(Current, sid, user, pw), sid)

\* The state r shows every id of the cache, every session and every live
\* instance as the current state does: the session map is the same, each
\* cached id has an instance with the same connection, location and
\* contents, and no instance referenced now has its location or contents
\* changed.
SameWorld(r) ==
    /\ r.active_sids = active_sids
    /\ DOMAIN r.active_objects = DOMAIN active_objects
    /\ \A id \in DOMAIN active_objects :
           active_objects[id] # None
           => /\ r.active_objects[id] # None
              /\ active_objects[id] \in DOMAIN connection
                 => r.connection[r.active_objects[id]] = connection[active_objects[id]]
              /\ r.location[r.active_objects[id]] = location[active_objects[id]]
              /\ r.contents[r.active_objects[id]] = contents[active_objects[id]]
    /\ \A i \in Referenced(Current) \cap Insts :
           /\ r.location[i] = location[i]
           /\ r.contents[i] = contents[i]
    /\ \A s \in Sids :
           active_sids[s] # None
           => r.connection[r.active_objects[r.active_sids[s]]] = s

\* C14: a failed login changes nothing. A handle_login call on an anonymous
\* connection that is rejected for a wrong password or because the player is
\* already logged in leaves the session map, the cache's mapping, every
\* contents list and every location as they were, and every existing session
\* still maps to an instance whose connection is that session's sid.
C14_FailedLoginChangesNothing ==
    \A sid \in Sids, user \in DOMAIN players, pw \in Passwords :
        /\ active_sids[sid] = None
        /\ WrongPassword(user, pw) \/ LoggedIn(user)
        => SameWorld(handle_login(Current, sid, user, pw))

\* The line is 'login <user> <pass>' or 'register <user> <pass> <email>'.
WellFormed(line) ==
    LET Is(parts) == /\ parts # <<>>
                     /\ \/ Lower(parts[1]) = S.login /\ Len(parts) = 3
                        \/ Lower(parts[1]) = S.register /\ Len(parts) = 4
    IN  line # <<>> /\ Is(SplitWords(Strip(line)))

\* The state r has the session map, the cache, the containment graph, the
\* store and the registry of the current state, no handler was resolved and
\* nothing was raised.
Inert(r) ==
    /\ r.raised = None
    /\ r.active_sids = active_sids
    /\ r.active_objects = active_objects
    /\ r.location = location
    /\ r.contents = contents
    /\ r.exits = exits
    /\ r.db = db
    /\ r.players = players
    /\ r.invoked = <<>>

\* C15: anonymous connections are inert. For a connection whose sid is not in
\* the session map, every input line other than a well-formed login or
\* register line leaves the session map, the cache, the containment graph
\* and the store unchanged and reaches no handler of the pipeline.
C15_AnonymousInert ==
    \A sid \in Sids, line \in PreLoginLines \cup SessionLines \cup {<<>>, <<" ", " ">>} :
        active_sids[sid] = None /\ ~WellFormed(line)
        => Inert(command_pre_login(Current, sid, line))

\* An anonymous connection was told to log in first while the other
\* connection has a session.
C15_Witness ==
    /\ active_sids["s1"] = None
    /\ active_sids["s2"] # None
    /\ Sent(told, "s1", Msg("message", "You must 'login <user> <pass>' or 'register <user> <pass> <email>' first."))

\* In state r the player with the given id has a session on sid in the Place
\* with id where: the session map and the cache name the player, the
\* player's connection is the sid, the player is located in the cached Place
\* and listed in its contents, and was sent its description.
LoggedInAt(r, sid, id, where) ==
    LET Placed(p, place) ==
            /\ p # None
            /\ place # None
            /\ IdOf(p) = id
            /\ r.connection[p] = sid
            /\ IsInstance(place, "Place")
            /\ r.location[p] = place
            /\ \E k \in 1..Len(r.contents[place]) : r.contents[place][k] = p
            /\ Sent(r.told, p, Msg("look_at", place))
    IN  /\ r.active_sids[sid] = id
        /\ id \in DOMAIN r.active_objects
        /\ where \in DOMAIN r.active_objects
        /\ Placed(r.active_objects[id], r.active_objects[where])

\* The id of the Place the stored record of the player names as its last
\* location, the start room when it names none.
PersistedPlace(id) ==
    IF db[id].last_location = None THEN start_room_id
    ELSE db[id].last_location

\* C16: successful login postcondition. After handle_login or
\* handle_register has logged player p in on sid s, active_sids[s] is p's id,
\* the cache maps the id to p, p.connection is s, p is located in and listed
\* by the Place its stored last_location names (the start room when there is
\* none, and for a new registration), and p was sent that Place's
\* description.
C16_LoginPostcondition ==
    \A sid \in Sids, user \in Usernames, pw \in Passwords :
        LET AfterLogin(r) ==
                r.raised = None /\ r.active_sids[sid] # None
                => LoggedInAt(r, sid, players[user], PersistedPlace(players[user]))
            AfterRegister(r) ==
                r.raised = None /\ r.active_sids[sid] # None
                => LoggedInAt(r, sid, r.players[user], start_room_id)
        IN  active_sids[sid] = None
            => /\ user \in DOMAIN players
                  => AfterLogin(handle_login(Current, sid, user, pw))
               /\ user \notin DOMAIN players
                  => AfterRegister(handle_register(Current, sid, user, pw))

\* The wizard is logged in again in the room they disconnected from, which
\* is not the start room, and a newly registered player is logged in on the
\* other connection.
C16_Witness ==
    /\ active_sids["s1"] = "w"
    /\ location[active_objects["w"]] # None
    /\ IdOf(location[active_objects["w"]]) = "B"
    /\ connection[active_objects["w"]] = "s1"
    /\ db["w"].last_location = "B"
    /\ active_sids["s2"] = "p"
    /\ connection[active_objects["p"]] = "s2"

\* The state r is what the disconnection of sid has to leave: player p, who
\* had the session and was in Place L, has no session and no connection and
\* is in no contents list, the other connected occupants of L and not p were
\* sent the departure announcement, and the stored record of p names L as
\* the last location.
Disconnected(r, sid, p) ==
    /\ r.raised = None
    /\ r.active_sids[sid] = None
    /\ r.connection[p] = None
    /\ \A i \in DOMAIN r.contents : Count(r.contents[i], p) = 0
    /\ \A k \in 1..Len(contents[location[p]]) :
           LET q == contents[location[p]][k]
           IN  q \in DOMAIN connection /\ q # p /\ connection[q] # None
               => Sent(r.told, q, Msg("has_disconnected", p))
    /\ ~SentAny(r.told, p)
    /\ r.db[IdOf(p)].last_location = IdOf(location[p])

\* C17: disconnection postcondition. After on_disconnect(s) for the session
\* of player p in Place L, s is not in the session map, p.connection is
\* none, p is in no contents list, the other connected occupants of L were
\* sent the departure announcement and p was not, and the record saved for p
\* has last_location = L.id.
C17_DisconnectPostcondition ==
    \A sid \in Sids, p \in DOMAIN connection :
        /\ active_sids[sid] = IdOf(p)
        /\ connection[p] = sid
        /\ location[p] # None
        => Disconnected(on_disconnect(Current, sid), sid, p)

\* The instances referenced from the cache, from a contents list, from a
\* location or from a Place's exits table.
LiveInstances ==
    ( { active_objects[x] : x \in DOMAIN active_objects }
      \cup { location[i] : i \in DOMAIN location }
      \cup UNION { { contents[i][k] : k \in 1..Len(contents[i]) } : i \in DOMAIN contents }
      \cup UNION { { exits[a][k][2] : k \in 1..Len(exits[a]) } : a \in DOMAIN exits } )
    \cap Insts

\* C18: single authoritative copy. For every entity id at most one instance
\* is referenced from the cache, the contents lists, the locations and the
\* exits tables, and it is the cache's entry for the id whenever the id is
\* cached.
C18_SingleAuthoritativeCopy ==
    \A i \in LiveInstances :
        /\ \A j \in LiveInstances : IdOf(i) = IdOf(j) => i = j
        /\ IdOf(i) \in DOMAIN active_objects /\ active_objects[IdOf(i)] # None
           => active_objects[IdOf(i)] = i

\* The record of e is saved, e is evicted from the cache and the id is
\* loaded from the store again; the new instance is left in ret.
RoundTrip(st, e) ==
    load([save(st, to_dict(st, e)) EXCEPT !.active_objects[IdOf(e)] = None],
         IdOf(e), TRUE)

\* C19: serialization round-trip. For every cached entity e, saving
\* to_dict(e), evicting e and reconstructing it with load(e.id) yields an
\* entity whose to_dict is field-for-field the record that was saved.
C19_SerializationRoundTrip ==
    \A id \in DOMAIN active_objects :
        LET Same(r, e) ==
                r.raised # Exhausted
                => /\ r.raised = None
                   /\ r.ret # None
                   /\ to_dict(r, r.ret) = to_dict(Current, e)
        IN  active_objects[id] # None
            => Same(RoundTrip(Current, active_objects[id]), active_objects[id])

\* The capability state of instance i in state st that the entity e has now:
\* is_open for an entity composing Openable, is_locked for one composing
\* Lockable that has the attribute.
SameCapabilities(r, i, e) ==
    /\ IsInstance(e, "Openable") => r.is_open[i] = is_open[e]
    /\ e \in DOMAIN is_locked => i \in DOMAIN r.is_locked /\ r.is_locked[i] = is_locked[e]

\* C20: capability state is persisted. The record of an entity that composes
\* Openable has the field open (is_locked for Lockable), and an entity saved
\* closed or locked is in the same capability state after it is evicted from
\* the cache and loaded from the store again.
C20_CapabilityStatePersisted ==
    \A id \in DOMAIN active_objects :
        LET Kept(r, e) ==
                r.raised # Exhausted
                => /\ r.raised = None
                   /\ r.ret # None
                   /\ SameCapabilities(r, r.ret, e)
            Persisted(e) ==
                /\ IsInstance(e, "Openable") => "open" \in DOMAIN to_dict(Current, e)
                /\ IsInstance(e, "Lockable") => "is_locked" \in DOMAIN to_dict(Current, e)
                /\ Kept(RoundTrip(Current, e), e)
        IN  active_objects[id] # None => Persisted(active_objects[id])

\* The Thing x is reached from x by following location pointers at most n
\* times from the Thing at.
RECURSIVE ReachesItself(_, _, _)
ReachesItself(x, at, n) ==
    IF n = 0 \/ at \notin DOMAIN location THEN FALSE
    ELSE IF location[at] = None THEN FALSE
    ELSE location[at] = x \/ ReachesItself(x, location[at], n - 1)

\* C21: the containment graph stays a tree. After any sequence of get, drop,
\* 'put X in C' and 'take X from C' commands, following the location
\* pointers from a Thing never comes back to that Thing.
C21_ContainmentIsATree ==
    \A x \in DOMAIN location : ~ReachesItself(x, x, Cardinality(DOMAIN location))

\* The actor alone is told the message of the given key about x, nothing
\* escapes and no open state has changed.
OnlyActorTold(r, player, key, x) ==
    /\ r.raised = None
    /\ r.is_open = is_open
    /\ r.told = <<[to |-> player, msg |-> Msg(key, x)]>>

C23_WearHoldPreconditions ==
    \A player \in Players :
        ItemInReach(probe, player) =>
            LET r == WearOrWield(Current, probe, player)
                done == IF probe.cls = "Clothing" THEN "wear" ELSE "wield"
                away == IF probe.cls = "Clothing" THEN "wear_failed_not_in_contents"
                        ELSE "wield_failed_not_in_contents"
                twice == IF probe.cls = "Clothing" THEN "wear_failed_wearing"
                         ELSE "wield_failed_wielding"
            IN  /\ r.st.raised = None
                /\ IF probe.location = player /\ probe.ref \in {None, NoAttr}
                   THEN r.it.ref = player
                   ELSE /\ r.it.ref = probe.ref
                        /\ r.st.told = <<[to |-> player,
                                          msg |-> Msg(IF probe.location # player
                                                      THEN away ELSE twice,
                                                      ItemId(probe))]>>

\* The id is one the world resolves: an instance is cached for it or the
\* store holds its record.
Resolves(id) ==
    \/ id \in DOMAIN active_objects /\ active_objects[id] # None
    \/ id \in DOMAIN db

\* C24: exit traversal with a deferred destination. Using an Exit whose
\* destination is a deferred id resolves it through the world: when it
\* resolves, the destination becomes that entity and the player is moved
\* there; when it does not resolve, when the destination is none or when the
\* player is not at the source, the player is told a failure message and
\* the locations, the contents and the destinations are unchanged.
C24_DeferredDestination ==
    \A self \in DOMAIN destination, player \in DOMAIN connection :
        (connection[player] # None /\ location[player] # None) =>
            With(Exit_use(Current, self, player), LAMBDA r :
                IF /\ location[player] = source[self]
                   /\ IsRef(destination[self])
                   /\ Resolves(Deref(destination[self]))
                THEN /\ r.raised = None
                     /\ r.destination[self] \in DOMAIN r.location
                     /\ IdOf(r.destination[self]) = Deref(destination[self])
                     /\ r.active_objects[Deref(destination[self])] = r.destination[self]
                     /\ r.location[player] = r.destination[self]
                     /\ InSeq(player, r.contents[r.destination[self]])
                     /\ ~InSeq(player, r.contents[location[player]])
                ELSE IF \/ location[player] # source[self]
                        \/ destination[self] = None
                        \/ IsRef(destination[self])
                THEN /\ r.raised = None
                     /\ r.location = location
                     /\ r.contents = contents
                     /\ r.destination = destination
                     /\ \E key \in {"leave_fail_location", "leave_fail_destination"} :
                           r.told = <<[to |-> player, msg |-> Msg(key, self)]>>
                ELSE TRUE)

\* The wizard has gone south through the exit whose destination was held as
\* the id of the start room: the destination is the room itself now.
C24_Witness ==
    /\ invoked = <<[func |-> "Exit.use", self |-> "south"]>>
    /\ destination["south"] = "A"
    /\ "w" \in DOMAIN location /\ location["w"] = "A"

\* The wizard has tried the exit whose destination names a Place the store
\* does not hold, and has been refused.
C24_WitnessDangling ==
    /\ invoked = <<[func |-> "Exit.use", self |-> "south"]>>
    /\ destination["south"] = RefOf[Gone]
    /\ told = <<[to |-> "w", msg |-> Msg("leave_fail_destination", "south")]>>

\* C25: exit table uniqueness and ownership. After any sequence of add_exit
\* calls a Place has at most one Exit per lower-cased exit name, filed under
\* that name, and every Exit in the table of a Place has that Place as its
\* source.
C25_ExitTable ==
    \A place \in DOMAIN exits :
        /\ \A j, k \in 1..Len(exits[place]) :
              exits[place][j][1] = exits[place][k][1] => j = k
        /\ \A k \in 1..Len(exits[place]) :
              /\ exits[place][k][1] = Lower(NameOf[exits[place][k][2]])
              /\ source[exits[place][k][2]] = place

\* C26: dangling references degrade gracefully. get_object for an id that is
\* neither cached nor stored returns none, and get_object for an entity whose
\* record names such an id in its location, contents, exits, source or
\* destination completes without an error.
C26_DanglingDegrades ==
    \A id \in Things \cup {Gone} :
        With(get_object(Current, id, TRUE), LAMBDA r :
            /\ r.raised \in {None, Exhausted}
            /\ id = Gone => r.ret = None)

\* The two outcomes of a handler differ at most in the messages emitted.
SameButTold(a, b) == \A f \in DOMAIN Current \ {"told"} : a[f] = b[f]

\* C27: outbound delivery is fire-and-forget. When the delivery of the
\* messages fails, the handler of a command or of a disconnection still runs
\* to completion and leaves exactly the world state it leaves when delivery
\* succeeds; telling a player whose connection is none does nothing.
C27_FireAndForget ==
    /\ \A sid \in Sids, line \in DeliverLines :
          (/\ active_sids[sid] # None
           /\ active_objects[active_sids[sid]] # None
           /\ location[active_objects[active_sids[sid]]] # None) =>
              With(process_player_command(Undelivered, active_objects[active_sids[sid]],
                                          line),
                   LAMBDA lost :
                       /\ lost.told = <<>>
                       /\ SameButTold(lost,
                                      process_player_command(
                                          Current, active_objects[active_sids[sid]], line)))
    /\ \A sid \in Sids :
          With(on_disconnect(Undelivered, sid), LAMBDA lost :
              /\ lost.told = <<>>
              /\ SameButTold(lost, on_disconnect(Current, sid)))
    /\ \A who \in DOMAIN connection :
          connection[who] = None => tell(Current, who, Msg("take", who)) = Current

\* The wizard has gone north while the event loop failed: the move is made
\* and no message has been emitted.
C27_Witness ==
    /\ invoked = <<[func |-> "Exit.use", self |-> "north"]>>
    /\ told = <<>>
    /\ raised = None
    /\ "w" \in DOMAIN location /\ location["w"] = "B"

\* C28 helper: the world of a state, without the messages and the trace of
\* the last operation.
WorldOf(st) ==
    <<st.location, st.contents, st.exits, st.source, st.destination, st.is_open,
      st.is_locked, st.connection, st.active_sids, st.active_objects, st.db,
      st.players, st.last_location, st.home, st.password_hash>>

\* C28 helper: the step leaves the world as one whole event, run from the
\* state before the step with nothing else in between, leaves it.
WholeEvent ==
    \/ \E sid \in Sids, line \in AsyncPreLoginLines :
          /\ active_sids[sid] = None
          /\ WorldOf(Current)' = WorldOf(Collect(command_pre_login(Current, sid, line)))
    \/ \E sid \in Sids : WorldOf(Current)' = WorldOf(Collect(on_disconnect(Current, sid)))
    \/ \E sid \in Sids, line \in SessionLines :
          /\ active_sids[sid] # None
          /\ WorldOf(Current)' =
                WorldOf(IF active_objects[active_sids[sid]] = None THEN Current
                        ELSE IF location[active_objects[active_sids[sid]]] = None
                        THEN Raise(Current, "AttributeError")
                        ELSE process_player_command(Current, active_objects[active_sids[sid]], line))

\* C28: with the handlers of several connections suspended and resumed at
\* their awaits, every step either leaves the cache, the session map, the
\* store and the containment graph as they are, or changes them as one whole
\* login, command or disconnect event does: the reachable worlds are those of
\* a serial order of whole events. No state an event starts from has a Thing
\* of a half-done transfer, one that is in no contents list or in two.
C28_RunToCompletion ==
    /\ [][UNCHANGED WorldOf(Current) \/ WholeEvent]_vars
    /\ [](\A x \in DOMAIN location, c \in DOMAIN contents :
              Count(contents[c], x) = (IF location[x] = c THEN 1 ELSE 0))

\* C28 witness: a command of one connection has run to its end while the
\* main.command of another connection is suspended at its await.
C28_Witness ==
    /\ \E sid \in Sids : Len(awaiting[sid]) > 0 /\ active_sids[sid] # None
    /\ invoked # <<>>
    /\ \E x \in DOMAIN location : location[x] = "B" /\ x \in {"w", "p"}

\* C29 helper: the ids a stored record refers to.
RecordRefs(rec) ==
    ({ rec[k] : k \in DOMAIN rec \cap {"location", "source", "destination",
                                       "last_location", "home"} } \ {None})
    \cup (IF "contents" \in DOMAIN rec THEN { rec.contents[i] : i \in 1..Len(rec.contents) } ELSE {})
    \cup (IF "exits" \in DOMAIN rec THEN { rec.exits[i] : i \in 1..Len(rec.exits) } ELSE {})

\* C29 helper: the run of setup_world that gave r has constructed entities.
Seeds(r) == \E x \in Things : r.active_objects[x] # None

\* C29: world bootstrap. On every store a server can find, setup_world seeds
\* the starter map exactly when the store has no config record of the world
\* id. When it finds one it constructs nothing and leaves the store as it
\* is. When it seeds, the store holds the config record {id, start_room_id}
\* with the id of a saved Place, the players index names the saved
\* Programmer, every id a newly saved record refers to is saved, and
\* setup_world on the store it leaves constructs and saves nothing.
C29_Bootstrap ==
    With(setup_world(db), LAMBDA r :
        /\ Seeds(r) <=> WorldKey \notin DOMAIN db
        /\ ~Seeds(r) => r.db = db
        /\ Seeds(r) =>
              /\ WorldKey \in DOMAIN r.db
              /\ r.db[WorldKey] = [id |-> WorldKey, start_room_id |-> r.db[WorldKey].start_room_id]
              /\ r.db[WorldKey].start_room_id \in DOMAIN r.db
              /\ r.db[r.db[WorldKey].start_room_id].class = "Place"
              /\ PlayersKey \in DOMAIN r.db
              /\ \E u \in DOMAIN r.db[PlayersKey] :
                    /\ r.db[PlayersKey][u] \in DOMAIN r.db
                    /\ r.db[r.db[PlayersKey][u]].class = "Programmer"
              /\ \A x \in DOMAIN r.db \ (DOMAIN db \cup {WorldKey, PlayersKey}) :
                    RecordRefs(r.db[x]) \subseteq DOMAIN r.db
              /\ ~Seeds(setup_world(r.db))
              /\ setup_world(r.db).db = r.db)

\* C29 witness: setup_world has just seeded a store that had no config
\* record.
C29_Witness ==
    /\ told = <<[to |-> "stdout", msg |-> Msg("Initializing game world...", WorldKey)]>>
    /\ WorldKey \in DOMAIN db
    /\ Gone \in DOMAIN db
    /\ \A x \in Things \ {"p"} : x \in DOMAIN db /\ active_objects[x] = x

\* C29 witness: setup_world has run again on the store of a world with a
\* registered player and has constructed nothing.
C29_WitnessLater ==
    /\ "p" \in DOMAIN db
    /\ \A x \in Things : active_objects[x] = None
    /\ told = <<>>

\* C30: a rejected grammar never ends resolution. In every reachable state
\* and for every line of a logged-in player that reaches the grammar search:
\* when no grammar entry of any candidate of the order matches the input, the
\* only outcome is the generic fail_command_match message to the player; and
\* when some candidate has an entry that matches, a handler is invoked,
\* whatever entries were rejected before it.
C30_RejectedGrammarContinues ==
    \A sid \in Sids, line \in GrammarLines :
        With(process_player_command(Current, active_sids[sid], line), LAMBDA r :
            IF \E i \in 1..Len(FixedOrder(active_sids[sid])) :
                    Satisfies(FixedOrder(active_sids[sid])[i], active_sids[sid], line)
            THEN Len(r.invoked) = 1
            ELSE /\ r.invoked = <<>>
                 /\ r.told = <<[to |-> active_sids[sid],
                                msg |-> Msg("fail_command_match", active_sids[sid])]>>)

\* C31 helper: the text before and the text after the first occurrence of sep
\* in s.
SplitAtFirst(s, sep) ==
    <<SubSeq(s, 1, Find(s, sep) - 1), Drop(s, Find(s, sep) + Len(sep) - 1)>>

\* C31 helper: a line in which " as " occurs twice after the verb.
DescribeLine == Join(<<S.atdesc, S.wiz, S.as, S.hi, S.as, S.hi>>)

\* C31: preposition split at the first occurrence. When a player who has the
\* wizard among the candidates enters "@desc wiz as hi as hi", the grammar
\* (@desc, self, as, any) of the wizard is matched with the direct object
\* "wiz", the text before the first " as ", and the handler receives all the
\* text after it, "hi as hi".
C31_SplitAtFirstOccurrence ==
    \A sid \in Sids :
        InSeq("w", FixedOrder(active_sids[sid]))
        => With(GrammarSearch(Current, search_order(Current, active_sids[sid]), 1, 1,
                              active_sids[sid], S.atdesc, Len(SplitWords(DescribeLine)),
                              Strip(ReplaceFirst(DescribeLine, S.atdesc))),
                LAMBDA r :
                    /\ r.k = "call"
                    /\ r.func = "Player.describe"
                    /\ r.self = "w"
                    /\ r.args = <<SplitAtFirst(Strip(ReplaceFirst(DescribeLine, S.atdesc)),
                                               S.sp \o S.as \o S.sp)[2]>>)

\* C32: command-cache invalidation. Whatever get_commands and
\* register_command calls an instance has seen, after register_command(info)
\* the table get_commands gives for each verb of info, caching allowed,
\* includes info.
C32_CacheInvalidation ==
    \A info \in CustomInfos, k \in 1..2 :
        k <= Len(info.verb)
        => InSeq(info, BaseThing_get_commands(BaseThing_register_command(probe, info),
                                              info.verb[k], TRUE).ret)

\* C33 helper: the store has a cycle of references through the start room:
\* the room lists the box and the exit north, whose records name the room.
CyclicStore ==
    /\ {"A", "box", "gem", "north"} \subseteq DOMAIN db
    /\ InSeq("box", db["A"].contents) /\ db["box"].location = "A"
    /\ InSeq("gem", db["box"].contents) /\ db["gem"].location = "box"
    /\ InSeq("north", db["A"].exits) /\ db["north"].source = "A"

\* C33 helper: the instances the call that gave r has constructed.
Constructed(r) == DOMAIN r.location \ DOMAIN location

\* C33: loading terminates on cyclic references. On every store and cache a
\* restarted server can be in, get_object on any id comes to an end. For a
\* cached id it returns the cached instance and changes nothing. No id is
\* constructed twice during the call, and when the call completes every
\* instance it constructed is the cache's entry for its id.
C33_LoadTerminatesOnCycles ==
    \A id \in Things \cup {Gone} :
        With(get_object(Current, id, TRUE), LAMBDA r :
            /\ r.raised # Exhausted
            /\ (id \in DOMAIN active_objects /\ active_objects[id] # None)
                  => r = Return(Current, active_objects[id])
            /\ \A x \in Things : Cardinality({i \in Constructed(r) : IdOf(i) = x}) <= 1
            /\ r.raised = None
                  => \A i \in Constructed(r) : r.active_objects[IdOf(i)] = i)

\* C33 witness: get_object has loaded the gem from a store with the cycles:
\* the box, the start room and its exits were constructed along the way and
\* are wired to one another.
C33_Witness ==
    /\ CyclicStore
    /\ \A x \in {"A", "box", "gem", "north"} : active_objects[x] = x
    /\ location["gem"] = "box" /\ contents["box"] = <<"gem">>
    /\ location["box"] = "A" /\ InSeq("box", contents["A"])
    /\ source["north"] = "A" /\ Lookup(exits["A"], S.north) = "north"

\* C34 helper: the lines that name the exit x after go or walk.
GoLines(x) ==
    { Join(<<S.go, Lower(NameOf[x])>>), Join(<<S.walk, Lower(NameOf[x])>>),
      Join(<<S.go, S.through, Lower(NameOf[x])>>) }

\* C34: a closed exit cannot be traversed. While the is_open of an
\* OpenableExit is false, a player at its source who enters 'go <exit>',
\* 'walk <exit>' or 'go through <exit>' stays where the player is and is
\* told that the exit is closed.
C34_ClosedExitBlocks ==
    \A sid \in Sids, x \in Openables \cap ExitIds :
        (/\ active_sids[sid] # None
         /\ ~is_open[x]
         /\ location[active_sids[sid]] = source[x])
        => \A line \in GoLines(x) :
              With(process_player_command(Current, active_sids[sid], line), LAMBDA r :
                  /\ r.location[active_sids[sid]] = location[active_sids[sid]]
                  /\ Sent(r.told, active_sids[sid], Msg("go_fail_closed", x)))

\* C35 helper: the handlers declared on Programmer.
ProgrammerFuncs ==
    { "Programmer.eval", "Programmer.dig", "Programmer.change_parent",
      "Programmer.rename", "Programmer.create", "Programmer.dump_database",
      "Programmer.list_messages", "Programmer.set_message", "Programmer.teleport" }

\* C35 helper: one line for each privileged verb, in the form its grammar takes.
PrivilegedLines ==
    { S.atdumpdb,
      Join(<<S.atteleport, S.north>>),
      Join(<<S.atmessages, S.gem>>),
      Join(<<S.ateval, S.one>>),
      Join(<<S.atdig, S.north, S.to, S.hi>>),
      Join(<<S.atchparent, S.gem, S.to, S.hi>>),
      Join(<<S.atrename, S.gem, S.to, S.hi>>),
      Join(<<S.atcreate, S.hi, S.as, S.gem>>),
      Join(<<S.atmessage, S.hi, S.as, S.hi>>) }

\* C35: privileged commands need a privileged issuer. For every logged-in
\* player who is not a Programmer and every privileged line, the grammar
\* search never selects a handler declared on Programmer, and the whole
\* pipeline run on "@dumpdb" invokes no such handler and leaves the store and
\* every player's last_location as they were.
C35_PrivilegedIssuer ==
    \A sid \in Sids :
        (active_sids[sid] # None /\ ~IsInstance(active_sids[sid], "Programmer"))
        => /\ \A line \in PrivilegedLines :
                  With(GrammarSearch(Current, search_order(Current, active_sids[sid]), 1, 1,
                                     active_sids[sid], SplitWords(line)[1],
                                     Len(SplitWords(line)),
                                     Strip(ReplaceFirst(line, SplitWords(line)[1]))),
                       LAMBDA r : ~(r.k = "call" /\ r.func \in ProgrammerFuncs))
           /\ With(process_player_command(Current, active_sids[sid], S.atdumpdb),
                   LAMBDA r :
                       /\ \A k \in 1..Len(r.invoked) : r.invoked[k].func \notin ProgrammerFuncs
                       /\ r.db = db
                       /\ r.last_location = last_location)

\* C36 helper: every sid of the session map maps to a cached player id.
SessionCached ==
    \A sid \in Sids : active_sids[sid] # None => active_objects[active_sids[sid]] # None

\* C36 helper: the cached instance of a session's player holds that session.
SessionConnected ==
    \A sid \in Sids :
        (active_sids[sid] # None /\ active_objects[active_sids[sid]] # None)
        => connection[active_objects[active_sids[sid]]] = sid

\* C36 helper: no player id is the value of two sids.
SessionInjective ==
    \A sid \in Sids, other \in Sids :
        (active_sids[sid] # None /\ active_sids[sid] = active_sids[other]) => sid = other

\* C36 helper: a Player whose connection is set is the value of its own sid.
ConnectionInSession ==
    \A x \in DOMAIN connection :
        connection[x] # None => active_sids[connection[x]] = IdOf(x)

\* C36: session-map invariant. In every state reached by logins (successful
\* or rejected), registrations, commands and disconnections, every sid of the
\* session map maps to a player id of the cache, the cached instance's
\* connection is that sid, no id is the value of two sids, and every Player
\* whose connection is set is the value of its own sid.
C36_SessionMapInvariant ==
    SessionCached /\ SessionConnected /\ SessionInjective /\ ConnectionInSession

\* C37 helper: lines an ordinary player can issue: movement, get, drop,
\* put-in and take-from, with the names the player's own matcher resolves.
OrdinaryLines ==
    ContainLines
    \cup { S.north, S.door,
           Join(<<S.put, S.me, S.in, S.box>>),
           Join(<<S.put, S.wiz, S.in, S.box>>),
           Join(<<S.put, S.bob, S.in, S.box>>) }

\* C37 helper: in state st every player of the session map is in a Place.
PlayersInPlaces(st) ==
    \A sid \in Sids :
        (st.active_sids[sid] # None /\ st.active_objects[st.active_sids[sid]] # None)
        => IsInstance(st.location[st.active_objects[st.active_sids[sid]]], "Place")

\* C37: a logged-in player is always in a Place. From every reachable state in
\* which the players of the session map are in Places, every line an ordinary
\* player can issue leaves every player of the session map in a Place.
C37_PlayerInPlace ==
    PlayersInPlaces(Current)
    => \A sid \in Sids, line \in OrdinaryLines :
           (active_sids[sid] # None /\ active_objects[active_sids[sid]] # None)
           => PlayersInPlaces(process_player_command(Current,
                                  active_objects[active_sids[sid]], line))

\* C38 helper: the item's wearer or holder, when it has one, carries it.
WornImpliesCarried(it) == it.ref \in Players => it.location = it.ref

C39_AnonymousDisconnect ==
    \A sid \in Sids :
        active_sids[sid] = None
        => With(on_disconnect(Current, sid), LAMBDA r :
               /\ r.raised = None
               /\ WorldOf(r) = WorldOf(Current)
               /\ r.told = <<>>)

\* C40 helper: the item is a Holdable carried by the player, with its held_by
\* attribute present and unset.
CarriedUnheld(it, player) ==
    it.cls = "HeldObject" /\ it.location = player /\ it.ref = None

\* C40: wield/unwield round trip. For a Holdable carried by player p and not
\* held, wield by p followed by unwield by p leaves held_by none, so that the
\* item can be wielded again; and unwield on a carried item that is not held
\* is refused with the 'not holding it' message and leaves held_by as it was.
C40_WieldUnwieldRoundTrip ==
    \A player \in Players :
        (ItemInReach(probe, player) /\ CarriedUnheld(probe, player))
        => /\ With(Holdable_wield(Current, probe, player), LAMBDA r :
                  With(Holdable_unwield(r.st, r.it, player), LAMBDA u :
                      /\ u.st.raised = None
                      /\ u.it.ref = None
                      /\ Holdable_wield(u.st, u.it, player).it.ref = player))
           /\ With(Holdable_unwield(Current, probe, player), LAMBDA u :
                  /\ u.it.ref = probe.ref
                  /\ u.st.told = <<[to |-> player,
                                    msg |-> Msg("unwield_failed_not_wielding", "sword")]>>)

====
